---- MODULE Spec2Model ----
(***************************************************************************)
(* Model of the orbtree library: a red-black tree whose nodes carry the    *)
(* sum of a weight function over their subtree (orbtree_base), on top of   *)
(* the two node allocators of orbtree_node.h (NodeAllocatorPtr and         *)
(* NodeAllocatorCompact).                                                  *)
(*                                                                         *)
(* A tree is handled as a record                                           *)
(*    t = [nodes, nvarray, size1, n_del, head, err, oom]                   *)
(* so that every function of the source is an operator from tree to tree.  *)
(* A C++ exception is the field err: once it is set every later step of    *)
(* the running operation is skipped, which leaves the tree exactly as the  *)
(* throw statement found it. The field oom names the request that the host *)
(* allocator refuses during the running operation: "none", "node" (the     *)
(* node or the growth of the node vector) or "sum" (the sum array).         *)
(***************************************************************************)
EXTENDS Integers, Sequences, FiniteSets, TLC

VARIABLES alloc, multi, nodes, nvarray, size1, n_del, deleted_nodes_head,
          err, lastOp, ret, nops, nupd, v12, v22

vars == <<alloc, multi, nodes, nvarray, size1, n_del, deleted_nodes_head,
          err, lastOp, ret, nops, nupd, v12, v22>>

(* ---------------------------- bounds ----------------------------------- *)
MaxKey  == 3      \* keys are 1..MaxKey
MaxSize == 6      \* inserts are offered while size1 < MaxSize
MaxOps  == 6      \* operations in one run
MaxMapOps == 5    \* operations in one run that may call update_value
MaxVal  == 1      \* update_value writes a value of 0..MaxVal
MaxUpdates == 1   \* calls of update_value in one run
MaxCompactOps == 6  \* operations in one run that may call shrink_to_fit or clear
MaxSentinelOps == 5 \* operations in one run that may call erase on a sentinel
MaxOomOps == 5      \* operations in one run that may meet an allocation failure
MaxBigOps == 4      \* operations in one run with values near the top of NVType
MaxHintOps == 4     \* operations in one run with inserts that take a hint
MaxSetOps == 4      \* operations in one run of a map with set_value
MaxClearOps == 5    \* operations in one run with clear on either allocator
MaxRotateOps == 6   \* operations in one run that ends with a rotation
MaxStackedOps == 6  \* operations in one run of the stacked vector
MaxVecOps == 4      \* operations in one run of the vector test
MaxElem == 2        \* the vectors hold elements of 1..MaxElem
MaxInsert == 3      \* a range insert takes 1..MaxInsert elements
MaxReserve == 5     \* reserve, resize and shrink_to_fit take 0..MaxReserve
max_grow == 2       \* the max_grow_ given to the vectors' constructors
SizeBits == 6       \* width of size_t

Keys == 1..MaxKey
Vals == 0..MaxVal

(* ------------------- index type of the compact allocator --------------- *)
\* IndexType is a template parameter: alloc names the instance, "compact"
\* with an index of IndexBits bits, "compact_small" with one of SmallIndexBits
IndexBits == 5
SmallIndexBits == 4
NVBits    == 8

IndexWidth == IF alloc = "compact_small" THEN SmallIndexBits ELSE IndexBits

redbit            == 2^(IndexWidth - 1)
max_nodes         == redbit - 1
deleted_indicator == max_nodes + redbit
NVTypeMax         == 2^NVBits - 1

Compact == alloc # "ptr"

\* Invalid handle: max_nodes for the compact allocator, the null pointer for
\* the pointer allocator
Invalid == IF Compact THEN max_nodes ELSE 0
\* the two sentinels: the first two nodes the allocator's constructor makes
root == IF Compact THEN 0 ELSE 1
nil  == IF Compact THEN 1 ELSE 2

NoErr == "none"

(* --------------------------- weight function --------------------------- *)
\* a vector weight with two components: the rank function (1 for every
\* entry) and a weight that depends on key and value
NVFunc(kv) == <<1, kv.key + kv.value>>
nv_per_node == Len(NVFunc([key |-> 1, value |-> 0]))
NVZero == [i \in 1..nv_per_node |-> 0]

\* Compare: std::less on the keys
c(a, b) == a < b

(* ------------------------------ nodes ---------------------------------- *)
\* Node::Node(kv) of either allocator; the pointer allocator's init_node
\* sets the three links to Invalid and allocates the partial sum
NewNode(kv) ==
    [key |-> kv.key, value |-> kv.value,
     parent |-> Invalid, left |-> Invalid, right |-> Invalid,
     red |-> FALSE,
     partialsum |-> IF Compact THEN <<>> ELSE NVZero]

KeyValue(nd) == [key |-> nd.key, value |-> nd.value]
DefaultKV == [key |-> 0, value |-> 0]

is_red(nd)     == IF Compact THEN nd.parent >= redbit ELSE nd.red
is_black(nd)   == ~is_red(nd)
get_parent(nd) == IF Compact THEN nd.parent % redbit ELSE nd.parent
is_deleted(nd) == Compact /\ nd.parent = deleted_indicator

node_set_red(nd) ==
    IF Compact
    THEN [nd EXCEPT !.parent = (nd.parent % redbit) + redbit]
    ELSE [nd EXCEPT !.red = TRUE]
node_set_black(nd) ==
    IF Compact
    THEN [nd EXCEPT !.parent = nd.parent % redbit]
    ELSE [nd EXCEPT !.red = FALSE]
\* keeps the colour bit of the compact node
node_set_parent(nd, p) ==
    IF Compact
    THEN [nd EXCEPT !.parent = p + (IF nd.parent >= redbit THEN redbit ELSE 0)]
    ELSE [nd EXCEPT !.parent = p]
node_set_deleted(nd) == [nd EXCEPT !.parent = deleted_indicator]

(* ------------------------ access through a tree ------------------------ *)
Throw(t, e) == IF t.err = NoErr THEN [t EXCEPT !.err = e] ELSE t

get_node(t, n) == t.nodes[n]
put_node(t, n, nd) ==
    IF t.err # NoErr THEN t ELSE [t EXCEPT !.nodes[n] = nd]

Left(t, n)   == get_node(t, n).left
Right(t, n)  == get_node(t, n).right
Parent(t, n) == get_parent(get_node(t, n))
IsRed(t, n)   == is_red(get_node(t, n))
IsBlack(t, n) == is_black(get_node(t, n))

set_left(t, n, x)  == put_node(t, n, [get_node(t, n) EXCEPT !.left = x])
set_right(t, n, x) == put_node(t, n, [get_node(t, n) EXCEPT !.right = x])
set_parent(t, n, p) ==
    IF Compact /\ p > max_nodes
    THEN Throw(t, "set_parent: parent ID too large")
    ELSE put_node(t, n, node_set_parent(get_node(t, n), p))
set_red(t, n)   == put_node(t, n, node_set_red(get_node(t, n)))
set_black(t, n) == put_node(t, n, node_set_black(get_node(t, n)))

get_node_key(t, n) == get_node(t, n).key
get_node_grvalue(t, n) == NVFunc(KeyValue(get_node(t, n)))

\* partial sum stored for node n: a slice of nvarray (compact) or the
\* node's own array (pointer)
get_node_sum(t, n) ==
    IF Compact
    THEN [i \in 1..nv_per_node |-> t.nvarray[n * nv_per_node + i - 1]]
    ELSE get_node(t, n).partialsum
set_node_sum(t, n, s) ==
    IF t.err # NoErr THEN t
    ELSE IF Compact
    THEN [t EXCEPT !.nvarray =
            [j \in DOMAIN t.nvarray |->
                IF j \in (n * nv_per_node)..(n * nv_per_node + nv_per_node - 1)
                THEN s[j - n * nv_per_node + 1] ELSE t.nvarray[j]]]
    ELSE [t EXCEPT !.nodes[n].partialsum = s]

(* ------------------------- NVAdd / NVSubtract -------------------------- *)
\* NVType is an unsigned integer of NVBits bits: x += y and x -= y wrap.
\* NVAddOK and NVSubtractOK are the tests after which the two functions
\* throw, x being within the type: for y > 0 max - y < x (overflow) and
\* min + y > x (underflow), for y = 0 min - y > x and max + y < x, never true
\* a test of NVAdd that looks at the first component only
NVAddOK_first_component(x, y) == ~(y[1] > 0 /\ NVTypeMax - y[1] < x[1])
NVAddOK(x, y) == \A i \in 1..nv_per_node : ~(y[i] > 0 /\ NVTypeMax - y[i] < x[i])
NVAdd(x, y) == [i \in 1..nv_per_node |-> (x[i] + y[i]) % (NVTypeMax + 1)]
NVSubtractOK(x, y) == \A i \in 1..nv_per_node : ~(y[i] > 0 /\ y[i] > x[i])
NVSubtract(x, y) == [i \in 1..nv_per_node |-> (x[i] - y[i]) % (NVTypeMax + 1)]

(* ------------------------------ update_sum ----------------------------- *)
\* update_sum that leaves out the sum of the right child
update_sum_no_right(t, n) ==
    IF t.err # NoErr THEN t ELSE
    LET s0 == get_node_grvalue(t, n)
        l  == Left(t, n)
        okl == l = nil \/ NVAddOK(s0, get_node_sum(t, l))
        s1 == IF l # nil THEN NVAdd(s0, get_node_sum(t, l)) ELSE s0
    IN  IF ~okl THEN Throw(t, "Arithmetic")
        ELSE set_node_sum(t, n, s1)

update_sum(t, n) ==
    IF t.err # NoErr THEN t ELSE
    LET s0 == get_node_grvalue(t, n)
        l  == Left(t, n)
        r  == Right(t, n)
        okl == l = nil \/ NVAddOK(s0, get_node_sum(t, l))
        s1 == IF l # nil THEN NVAdd(s0, get_node_sum(t, l)) ELSE s0
        okr == r = nil \/ NVAddOK(s1, get_node_sum(t, r))
        s2 == IF r # nil THEN NVAdd(s1, get_node_sum(t, r)) ELSE s1
    IN  IF ~okl \/ ~okr THEN Throw(t, "Arithmetic")
        ELSE set_node_sum(t, n, s2)

RECURSIVE update_sum_r(_, _)
update_sum_r(t, n) ==
    IF t.err # NoErr \/ n = root THEN t
    ELSE LET t1 == update_sum(t, n) IN update_sum_r(t1, Parent(t1, n))

(* ------------------------------ rotations ------------------------------ *)
\* every statement is a step from tree to tree; the steps are applied in the
\* order of the source
\* rotate_left that recomputes the sum of y before the sum of x
rotate_left_sums_y_first(t, x) ==
    LET y == Right(t, x)
        s1(t0) == set_right(t0, x, Left(t0, y))
        s2(t1) == IF Right(t1, x) # nil THEN set_parent(t1, Right(t1, x), x) ELSE t1
        s3(t2) == set_parent(t2, y, Parent(t2, x))
        s4(t3) == IF x = Right(t3, Parent(t3, x))
                  THEN set_right(t3, Parent(t3, x), y)
                  ELSE set_left(t3, Parent(t3, x), y)
        s5(t4) == set_left(t4, y, x)
        s6(t5) == set_parent(t5, x, y)
    IN  update_sum(update_sum(s6(s5(s4(s3(s2(s1(t)))))), y), x)

\* rotate_left that sets the parent of the subtree it moves without testing
\* for nil
rotate_left_writes_nil(t, x) ==
    LET y == Right(t, x)
        s1(t0) == set_right(t0, x, Left(t0, y))
        s2(t1) == set_parent(t1, Right(t1, x), x)
        s3(t2) == set_parent(t2, y, Parent(t2, x))
        s4(t3) == IF x = Right(t3, Parent(t3, x))
                  THEN set_right(t3, Parent(t3, x), y)
                  ELSE set_left(t3, Parent(t3, x), y)
        s5(t4) == set_left(t4, y, x)
        s6(t5) == set_parent(t5, x, y)
    IN  update_sum(update_sum(s6(s5(s4(s3(s2(s1(t)))))), x), y)

rotate_left(t, x) ==
    LET y == Right(t, x)
        s1(t0) == set_right(t0, x, Left(t0, y))
        s2(t1) == IF Right(t1, x) # nil THEN set_parent(t1, Right(t1, x), x) ELSE t1
        s3(t2) == set_parent(t2, y, Parent(t2, x))
        s4(t3) == IF x = Right(t3, Parent(t3, x))
                  THEN set_right(t3, Parent(t3, x), y)
                  ELSE set_left(t3, Parent(t3, x), y)
        s5(t4) == set_left(t4, y, x)
        s6(t5) == set_parent(t5, x, y)
    IN  update_sum(update_sum(s6(s5(s4(s3(s2(s1(t)))))), x), y)

rotate_right(t, x) ==
    LET y == Left(t, x)
        s1(t0) == set_left(t0, x, Right(t0, y))
        s2(t1) == IF Left(t1, x) # nil THEN set_parent(t1, Left(t1, x), x) ELSE t1
        s3(t2) == set_parent(t2, y, Parent(t2, x))
        s4(t3) == IF x = Right(t3, Parent(t3, x))
                  THEN set_right(t3, Parent(t3, x), y)
                  ELSE set_left(t3, Parent(t3, x), y)
        s5(t4) == set_right(t4, y, x)
        s6(t5) == set_parent(t5, x, y)
    IN  update_sum(update_sum(s6(s5(s4(s3(s2(s1(t)))))), x), y)

rotate_parent(t, n) ==
    IF n = Left(t, Parent(t, n)) THEN rotate_right(t, Parent(t, n))
    ELSE rotate_left(t, Parent(t, n))

get_sibling_handle(t, n) ==
    IF n = Left(t, Parent(t, n)) THEN Right(t, Parent(t, n))
    ELSE Left(t, Parent(t, n))
is_left_side(t, n) == Left(t, Parent(t, n)) = n

(* ------------------------------ searches ------------------------------- *)
\* insert_search_loop that descends to the left of a node with an equal key
\* in a multi container
RECURSIVE insert_search_loop_left_on_equal(_, _, _)
insert_search_loop_left_on_equal(t, k, n) ==
    LET k1 == get_node_key(t, n) IN
    IF c(k, k1) \/ (multi /\ ~c(k1, k))
    THEN IF Left(t, n) = nil
         THEN [ok |-> TRUE, n |-> n, insert_left |-> TRUE]
         ELSE insert_search_loop_left_on_equal(t, k, Left(t, n))
    ELSE IF ~multi /\ ~c(k1, k)
         THEN [ok |-> FALSE, n |-> n, insert_left |-> FALSE]
         ELSE IF Right(t, n) = nil
              THEN [ok |-> TRUE, n |-> n, insert_left |-> FALSE]
              ELSE insert_search_loop_left_on_equal(t, k, Right(t, n))

RECURSIVE insert_search_loop(_, _, _)
insert_search_loop(t, k, n) ==
    LET k1 == get_node_key(t, n) IN
    IF c(k, k1)
    THEN IF Left(t, n) = nil
         THEN [ok |-> TRUE, n |-> n, insert_left |-> TRUE]
         ELSE insert_search_loop(t, k, Left(t, n))
    ELSE IF ~multi /\ ~c(k1, k)
         THEN [ok |-> FALSE, n |-> n, insert_left |-> FALSE]
         ELSE IF Right(t, n) = nil
              THEN [ok |-> TRUE, n |-> n, insert_left |-> FALSE]
              ELSE insert_search_loop(t, k, Right(t, n))

\* result: ok (insert is possible), n (parent for the new node, or the node
\* with the same key), insert_left
insert_search(t, k) ==
    IF Right(t, root) = nil
    THEN [ok |-> TRUE, n |-> root, insert_left |-> FALSE]
    ELSE insert_search_loop(t, k, Right(t, root))

RECURSIVE lower_bound_loop(_, _, _, _)
lower_bound_loop(t, key, n, last) ==
    LET goRight == c(get_node_key(t, n), key)
        n2    == IF goRight THEN Right(t, n) ELSE Left(t, n)
        last2 == IF goRight THEN last ELSE n
    IN  IF n2 = nil THEN last2 ELSE lower_bound_loop(t, key, n2, last2)

lower_bound(t, key) ==
    IF root = Invalid THEN nil
    ELSE LET n == Right(t, root) IN
         IF n = Invalid \/ n = nil THEN nil
         ELSE lower_bound_loop(t, key, n, nil)

RECURSIVE find_loop(_, _, _)
find_loop(t, key, n) ==
    LET k1 == get_node_key(t, n)
        n2 == IF c(key, k1) THEN Left(t, n) ELSE Right(t, n)
    IN  IF ~c(key, k1) /\ ~c(k1, key) THEN n
        ELSE IF n2 = nil THEN n2
        ELSE find_loop(t, key, n2)

find(t, key) ==
    IF root = Invalid THEN nil
    ELSE LET n == Right(t, root) IN
         IF n = Invalid \/ n = nil THEN nil
         ELSE find_loop(t, key, n)

(* ------------------------ first, last, next, previous ------------------ *)
RECURSIVE leftmost(_, _)
leftmost(t, n) == IF Left(t, n) # nil THEN leftmost(t, Left(t, n)) ELSE n
RECURSIVE rightmost(_, _)
rightmost(t, n) == IF Right(t, n) # nil THEN rightmost(t, Right(t, n)) ELSE n

first(t) ==
    IF root = Invalid THEN nil
    ELSE LET n == Right(t, root) IN
         IF n = Invalid \/ n = nil THEN nil ELSE leftmost(t, n)
last(t) ==
    IF root = Invalid THEN nil
    ELSE LET n == Right(t, root) IN
         IF n = Invalid \/ n = nil THEN nil ELSE rightmost(t, n)

RECURSIVE next_up(_, _)
next_up(t, n) ==
    LET p == Parent(t, n) IN
    IF p = root THEN nil
    ELSE IF Left(t, p) = n THEN p
    ELSE next_up(t, p)

next(t, n) ==
    IF n = nil THEN n
    ELSE IF Right(t, n) # nil THEN leftmost(t, Right(t, n))
    ELSE next_up(t, n)

RECURSIVE previous_up(_, _)
previous_up(t, n) ==
    LET p == Parent(t, n) IN
    IF p = root THEN nil
    ELSE IF Right(t, p) = n THEN p
    ELSE previous_up(t, p)

previous(t, n) ==
    IF n = nil THEN last(t)
    ELSE IF Left(t, n) # nil THEN rightmost(t, Left(t, n))
    ELSE previous_up(t, n)

(* ------------------------------ allocator ------------------------------ *)
\* NodeAllocatorCompact::try_get_node: pop the head of the list of deleted
\* nodes; result: the tree and the handle (ok = FALSE: the list is empty)
\* try_get_node that never finds a deleted node
try_get_node_never(t) == [t |-> t, ok |-> FALSE, n |-> Invalid]

try_get_node(t) ==
    IF t.head # Invalid
    THEN IF t.n_del = 0
         THEN [t |-> Throw(t, "alloc_node: inconsistent deleted nodes"),
               ok |-> FALSE, n |-> Invalid]
         ELSE LET n  == t.head
                  t1 == [t EXCEPT !.n_del = @ - 1]
                  t2 == set_parent(t1, n, Invalid)
                  h  == Left(t2, n)
                  t3 == [t2 EXCEPT !.head = h]
                  t4 == IF h # Invalid THEN set_right(t3, h, Invalid) ELSE t3
              IN  [t |-> t4, ok |-> TRUE, n |-> n]
    ELSE [t |-> t, ok |-> FALSE, n |-> Invalid]

\* the lowest address the heap has not handed out
FreshAddress(t) ==
    CHOOSE a \in 1..(Cardinality(DOMAIN t.nodes) + 1) :
        /\ a \notin DOMAIN t.nodes
        /\ \A b \in 1..(a - 1) : b \in DOMAIN t.nodes

\* new_node that tests the length of the node vector against max_nodes + 1
new_node_limit_past_invalid(t, kv) ==
    IF Compact
    THEN LET size == Cardinality(DOMAIN t.nodes)
             g    == try_get_node(t)
         IN  IF g.t.err # NoErr THEN [t |-> g.t, n |-> Invalid]
             ELSE IF g.ok
             THEN [t |-> put_node(g.t, g.n, NewNode(kv)), n |-> g.n]
             ELSE IF size = max_nodes + 1
             THEN [t |-> Throw(t, "Capacity"), n |-> Invalid]
             ELSE IF t.oom = "node"     \* nodes.emplace_back throws
             THEN [t |-> Throw(t, "OutOfMemory"), n |-> Invalid]
             ELSE IF t.oom = "sum"      \* nvarray.resize throws
             THEN [t |-> Throw([t EXCEPT !.nodes = @ @@ (size :> NewNode(kv))],
                               "OutOfMemory"),
                   n |-> Invalid]
             ELSE [t |-> [t EXCEPT
                            !.nodes = @ @@ (size :> NewNode(kv)),
                            !.nvarray =
                               [j \in 0..((size + 1) * nv_per_node - 1) |->
                                  IF j \in DOMAIN t.nvarray
                                  THEN t.nvarray[j] ELSE 0]],
                   n |-> size]
    ELSE LET a == FreshAddress(t)
         IN  IF t.oom = "node"          \* new Node(kv) throws
             THEN [t |-> Throw(t, "OutOfMemory"), n |-> Invalid]
             ELSE IF t.oom = "sum"      \* new NVType[nv_per_node] throws
             THEN [t |-> Throw([t EXCEPT !.nodes = @ @@
                                   (a :> [NewNode(kv) EXCEPT !.partialsum = <<>>])],
                               "OutOfMemory"),
                   n |-> Invalid]
             ELSE [t |-> [t EXCEPT !.nodes = @ @@ (a :> NewNode(kv))], n |-> a]

\* new_node(kv) of either allocator; result: the tree and the new handle
new_node(t, kv) ==
    IF Compact
    THEN LET size == Cardinality(DOMAIN t.nodes)
             g    == try_get_node(t)
         IN  IF g.t.err # NoErr THEN [t |-> g.t, n |-> Invalid]
             ELSE IF g.ok
             THEN [t |-> put_node(g.t, g.n, NewNode(kv)), n |-> g.n]
             ELSE IF size = max_nodes
             THEN [t |-> Throw(t, "Capacity"), n |-> Invalid]
             ELSE IF t.oom = "node"     \* nodes.emplace_back throws
             THEN [t |-> Throw(t, "OutOfMemory"), n |-> Invalid]
             ELSE IF t.oom = "sum"      \* nvarray.resize throws
             THEN [t |-> Throw([t EXCEPT !.nodes = @ @@ (size :> NewNode(kv))],
                               "OutOfMemory"),
                   n |-> Invalid]
             ELSE [t |-> [t EXCEPT
                            !.nodes = @ @@ (size :> NewNode(kv)),
                            !.nvarray =
                               [j \in 0..((size + 1) * nv_per_node - 1) |->
                                  IF j \in DOMAIN t.nvarray
                                  THEN t.nvarray[j] ELSE 0]],
                   n |-> size]
    ELSE LET a == FreshAddress(t)
         IN  IF t.oom = "node"          \* new Node(kv) throws
             THEN [t |-> Throw(t, "OutOfMemory"), n |-> Invalid]
             ELSE IF t.oom = "sum"      \* new NVType[nv_per_node] throws
             THEN [t |-> Throw([t EXCEPT !.nodes = @ @@
                                   (a :> [NewNode(kv) EXCEPT !.partialsum = <<>>])],
                               "OutOfMemory"),
                   n |-> Invalid]
             ELSE [t |-> [t EXCEPT !.nodes = @ @@ (a :> NewNode(kv))], n |-> a]

free_node(t, n) ==
    IF t.err # NoErr THEN t
    ELSE IF Compact
    THEN LET t1 == put_node(t, n, node_set_deleted(get_node(t, n)))
             t2 == set_right(t1, n, Invalid)
             t3 == set_left(t2, n, t.head)
             t4 == IF t.head # Invalid THEN set_right(t3, t.head, n) ELSE t3
         IN  [t4 EXCEPT !.head = n, !.n_del = @ + 1]
    ELSE [t EXCEPT !.nodes = [a \in DOMAIN t.nodes \ {n} |-> t.nodes[a]]]

\* orbtree_base::create_sentinels
create_sentinels(t) ==
    LET t1 == set_black(set_right(set_left(set_parent(t, root, nil), root, nil), root, nil), root)
        t2 == set_black(set_right(set_left(set_parent(t1, nil, nil), nil, nil), nil, nil), nil)
    IN  [t2 EXCEPT !.size1 = 0]

\* the allocator's constructor followed by the tree's: two sentinels
EmptyAllocator ==
    [nodes |-> <<>>, nvarray |-> <<>>, size1 |-> 0, n_del |-> 0,
     head |-> Invalid, err |-> NoErr, oom |-> "none"]
Construct ==
    LET a0 == [EmptyAllocator EXCEPT
                 !.nodes = [n \in {} |-> NewNode(DefaultKV)],
                 !.nvarray = [j \in {} |-> 0]]
        a1 == new_node(a0, DefaultKV).t
        a2 == new_node(a1, DefaultKV).t
    IN  create_sentinels(a2)

(* -------------------------------- insert ------------------------------- *)
\* the loop of insert_helper that adds the new weight to every ancestor
RECURSIVE insert_add_sums(_, _, _)
insert_add_sums(t, n2, sum_add) ==
    IF t.err # NoErr \/ n2 = root THEN t
    ELSE LET tmp == get_node_sum(t, n2) IN
         IF ~NVAddOK(tmp, sum_add) THEN Throw(t, "Arithmetic")
         ELSE LET t1 == set_node_sum(t, n2, NVAdd(tmp, sum_add))
              IN  insert_add_sums(t1, Parent(t1, n2), sum_add)

\* the red-black fixup loop of insert_helper; n1 is red, n is its parent
RECURSIVE insert_fixup(_, _, _)
insert_fixup(t, n, n1) ==
    IF t.err # NoErr THEN t
    ELSE IF n = root THEN t
    ELSE IF IsBlack(t, n) THEN t
    ELSE IF Parent(t, n) = root THEN set_black(t, n)
    ELSE IF IsRed(t, get_sibling_handle(t, n))
    THEN LET t1 == set_black(t, get_sibling_handle(t, n))
             t2 == set_black(t1, n)
             t3 == set_red(t2, Parent(t2, n))
             m1 == Parent(t3, n)
             m  == Parent(t3, m1)
         IN  insert_fixup(t3, m, m1)
    ELSE LET diff == is_left_side(t, n1) # is_left_side(t, n)
             m  == IF diff THEN n1 ELSE n
             s1(t0) == IF diff THEN rotate_parent(t0, n1) ELSE t0
             s2(t1) == set_black(t1, m)
             s3(t2) == set_red(t2, Parent(t2, m))
         IN  rotate_parent(s3(s2(s1(t))), m)

insert_helper(t, n, n1, insert_left) ==
    LET s1(t0) == IF insert_left THEN set_left(t0, n, n1) ELSE set_right(t0, n, n1)
        s2(t1) == set_parent(t1, n1, n)
        s3(t2) == set_left(t2, n1, nil)
        s4(t3) == set_right(t3, n1, nil)
        s5(t4) == set_red(t4, n1)
        s6(t5) == LET sum_add == get_node_grvalue(t5, n1)
                  IN  insert_add_sums(set_node_sum(t5, n1, sum_add), n, sum_add)
    IN  insert_fixup(s6(s5(s4(s3(s2(s1(t)))))), n, n1)

\* insert that counts the entry before it knows that the key is new
insert_counts_first(t, kv) ==
    LET s  == insert_search(t, kv.key)
        t0 == [t EXCEPT !.size1 = @ + 1]
        link(a) == IF a.t.err # NoErr THEN [t |-> a.t, n |-> a.n, inserted |-> FALSE]
                   ELSE [t |-> insert_helper(a.t, s.n, a.n, s.insert_left),
                         n |-> a.n, inserted |-> TRUE]
    IN  IF ~s.ok THEN [t |-> t0, n |-> s.n, inserted |-> FALSE]
        ELSE link(new_node(t0, kv))

\* orbtree_base::insert(const ValueType&); result: tree, handle, inserted
insert(t, kv) ==
    LET s == insert_search(t, kv.key)
        count(t1) == IF t1.err # NoErr THEN t1 ELSE [t1 EXCEPT !.size1 = @ + 1]
        link(a) == IF a.t.err # NoErr THEN [t |-> a.t, n |-> a.n, inserted |-> FALSE]
                   ELSE [t |-> count(insert_helper(a.t, s.n, a.n, s.insert_left)),
                         n |-> a.n, inserted |-> TRUE]
    IN  IF ~s.ok THEN [t |-> t, n |-> s.n, inserted |-> FALSE]
        ELSE link(new_node(t, kv))

(* --------------------------- insert with a hint ------------------------ *)
\* nodes that hold an entry: every allocated node but the sentinels and, for
\* the compact allocator, the slots on the list of deleted nodes
LiveHandles(t) ==
    {n \in DOMAIN t.nodes \ {root, nil} : ~is_deleted(t.nodes[n])}

\* a node handle where the source wants a bool: an index that is not 0, a
\* pointer that is not null
handle_to_bool(p) == p # 0

\* what reading the uninitialised n of insert(NodeHandle, const ValueType&)
\* ends in when the value is no node of the tree
UBUninit == "crash: uninitialised n"
\* the mark of a run that went on after linking under an uninitialised n
UBStray == "stray: uninitialised n"

\* insert_search_hint, the case of a key equal to the hint's key, with the
\* search of insert without a hint in its place
hint_equal_as_insert(t, hint, k) ==
    LET s == insert_search(t, k)
    IN  [ok |-> s.ok, n |-> s.n, insert_left |-> s.insert_left, uninit |-> FALSE,
         throw |-> FALSE]

\* insert_search_hint, the case of a key equal to the hint's key
\* (the runtime_error of the else branch is constructed and not thrown)
hint_equal(t, hint, k) ==
    IF ~multi
    THEN [ok |-> FALSE, n |-> hint, insert_left |-> FALSE, uninit |-> FALSE, throw |-> FALSE]
    ELSE IF Left(t, hint) = nil
    THEN [ok |-> TRUE, n |-> hint, insert_left |-> TRUE, uninit |-> FALSE, throw |-> FALSE]
    ELSE [ok |-> TRUE, n |-> previous(t, hint), insert_left |-> FALSE, uninit |-> FALSE,
          throw |-> FALSE]

\* insert_search_hint, the case of a key below the hint's key; un and ul are
\* what the caller's uninitialised n and insert_left hold
hint_above(t, hint, k, un, ul) ==
    LET p == previous(t, hint) IN
    IF ~c(k, get_node_key(t, p))
    THEN IF ~multi /\ ~c(get_node_key(t, p), k)
         THEN \* return p: the handle as a bool, n and insert_left not set
              [ok |-> handle_to_bool(p), n |-> un, insert_left |-> ul, uninit |-> TRUE,
               throw |-> FALSE]
         ELSE IF Left(t, hint) = nil
         THEN [ok |-> TRUE, n |-> hint, insert_left |-> TRUE, uninit |-> FALSE,
               throw |-> FALSE]
         ELSE IF Right(t, p) = nil
         THEN [ok |-> TRUE, n |-> p, insert_left |-> FALSE, uninit |-> FALSE,
               throw |-> FALSE]
         ELSE [ok |-> FALSE, n |-> un, insert_left |-> ul, uninit |-> TRUE, throw |-> TRUE]
    ELSE \* the hint is wrong: the search of insert without a hint (the source
         \* takes .first of its bool, which no compiler accepts; the bool
         \* itself is the one value the statement can mean)
         LET s == insert_search(t, k)
         IN  [ok |-> s.ok, n |-> s.n, insert_left |-> s.insert_left, uninit |-> FALSE,
              throw |-> FALSE]

\* insert_search_hint, the case of a key above the hint's key
hint_below(t, hint, k) ==
    LET n == lower_bound(t, k) IN
    IF n # nil
    THEN IF Left(t, n) = nil
         THEN [ok |-> TRUE, n |-> n, insert_left |-> TRUE, uninit |-> FALSE, throw |-> FALSE]
         ELSE [ok |-> TRUE, n |-> previous(t, n), insert_left |-> FALSE, uninit |-> FALSE,
               throw |-> FALSE]
    ELSE [ok |-> TRUE, n |-> last(t), insert_left |-> FALSE, uninit |-> FALSE,
          throw |-> FALSE]

\* result: ok, n, insert_left as for insert_search; uninit when n and
\* insert_left are returned as the caller left them; throw for the
\* runtime_error
insert_search_hint(t, hint, k, un, ul) ==
    IF c(k, get_node_key(t, hint)) THEN hint_above(t, hint, k, un, ul)
    ELSE IF ~c(get_node_key(t, hint), k) THEN hint_equal(t, hint, k)
    ELSE hint_below(t, hint, k)

\* orbtree_base::insert(NodeHandle hint, const ValueType&); result: tree,
\* handle, inserted.  A use of the uninitialised n is undefined behaviour:
\* with a value that is neither the header nor the node of an entry the
\* process is killed or does not return, with such a node the new node is
\* linked under it and the run is followed no further
insert_hint(t, hint, kv, un, ul) ==
    LET s == insert_search_hint(t, hint, kv.key, un, ul)
        count(t1) == IF t1.err # NoErr THEN t1 ELSE [t1 EXCEPT !.size1 = @ + 1]
        stop(t1) == IF s.uninit /\ t1.err = NoErr THEN Throw(t1, UBStray) ELSE t1
        link(a) == IF a.t.err # NoErr THEN [t |-> a.t, n |-> a.n, inserted |-> FALSE]
                   ELSE [t |-> stop(count(insert_helper(a.t, s.n, a.n, s.insert_left))),
                         n |-> a.n, inserted |-> TRUE]
    IN  IF s.throw THEN [t |-> Throw(t, "Inconsistent"), n |-> nil, inserted |-> FALSE]
        ELSE IF ~s.ok THEN [t |-> t, n |-> s.n, inserted |-> FALSE]
        ELSE IF s.uninit /\ s.n \notin LiveHandles(t) \cup {root}
        THEN [t |-> Throw(t, UBUninit), n |-> nil, inserted |-> FALSE]
        ELSE link(new_node(t, kv))

\* orbtree::insert(const_iterator hint, const value_type&): an iterator at
\* end() gives insert without a hint
insert_with_hint(t, hint, kv, un, ul) ==
    IF hint = nil THEN insert(t, kv) ELSE insert_hint(t, hint, kv, un, ul)

(* ----------------------------- update_value --------------------------- *)
update_value(t, n, v) == update_sum_r(put_node(t, n, [get_node(t, n) EXCEPT !.value = v]), n)

\* orbtreemap::at; ok is FALSE where the source throws out_of_range
at(t, k) ==
    LET n == find(t, k)
    IN  IF n = nil THEN [ok |-> FALSE, value |-> 0]
        ELSE [ok |-> TRUE, value |-> get_node(t, n).value]

\* set_value that leaves the value of a stored key as it is
set_value_insert_only(t, k, v) ==
    LET tmp == insert(t, [key |-> k, value |-> v])
    IN  [t |-> tmp.t, n |-> tmp.n, inserted |-> tmp.inserted]

\* iterator_base::set_value
iterator_set_value(t, n, v) == update_value(t, n, v)

\* orbtreemap::set_value(const key_type&, const mapped_type&); result: tree,
\* handle of the iterator, the bool returned
set_value(t, k, v) ==
    LET tmp == insert(t, [key |-> k, value |-> v])
    IN  IF ~tmp.inserted /\ tmp.t.err = NoErr
        THEN [t |-> iterator_set_value(tmp.t, tmp.n, v), n |-> tmp.n, inserted |-> FALSE]
        ELSE [t |-> tmp.t, n |-> tmp.n, inserted |-> tmp.inserted]

(* -------------------------------- erase -------------------------------- *)
\* the loop of erase that subtracts the weight of del from every ancestor
RECURSIVE erase_subtract_sums(_, _, _)
erase_subtract_sums(t, p2, x2) ==
    IF t.err # NoErr \/ p2 = root THEN t
    ELSE LET y == get_node_sum(t, p2) IN
         IF ~NVSubtractOK(y, x2) THEN Throw(t, "Arithmetic")
         ELSE LET t1 == set_node_sum(t, p2, NVSubtract(y, x2))
              IN  erase_subtract_sums(t1, Parent(t1, p2), x2)

\* the fixup loop of erase: the side cc of p is one black node short
RECURSIVE erase_fixup(_, _, _)
erase_fixup(t, p, cc) ==
    IF t.err # NoErr THEN t ELSE
    LET s0 == Left(t, p)
        s  == IF s0 = nil \/ s0 = cc THEN Right(t, p) ELSE s0
    IN  IF s = nil \/ s = cc
        THEN Throw(t, "erase: found black node with no sibling")
        ELSE IF IsRed(t, s)
        THEN erase_fixup(rotate_parent(set_black(set_red(t, p), s), s), p, cc)
        ELSE IF IsBlack(t, Left(t, s)) /\ IsBlack(t, Right(t, s))
        THEN LET t1 == set_red(t, s) IN
             IF IsRed(t1, p) THEN set_black(t1, p)
             ELSE IF Parent(t1, p) = root THEN t1
             ELSE erase_fixup(t1, Parent(t1, p), p)
        ELSE IF s = Right(t, p) /\ IsBlack(t, Right(t, s))
        THEN erase_fixup(rotate_right(set_black(set_red(t, s), Left(t, s)), s), p, cc)
        ELSE IF s = Left(t, p) /\ IsBlack(t, Left(t, s))
        THEN erase_fixup(rotate_left(set_black(set_red(t, s), Right(t, s)), s), p, cc)
        ELSE LET t1 == IF IsRed(t, p) THEN set_red(t, s) ELSE t
                 t2 == set_black(t1, p)
                 t3 == IF s = Right(t2, p) THEN set_black(t2, Right(t2, s))
                       ELSE set_black(t2, Left(t2, s))
             IN  rotate_parent(t3, s)

\* erase_replace where x keeps its own colour instead of taking that of n
erase_replace_keep_colour(t, n, x) ==
    LET s1(t0) == set_left(t0, x, Left(t0, n))
        s2(t1) == set_right(t1, x, Right(t1, n))
        s3(t2) == set_parent(t2, x, Parent(t2, n))
        s5(t4) == IF Left(t4, Parent(t4, n)) = n THEN set_left(t4, Parent(t4, n), x)
                  ELSE IF Right(t4, Parent(t4, n)) = n THEN set_right(t4, Parent(t4, n), x)
                  ELSE Throw(t4, "erase: inconsistent tree detected")
        s6(t5) == IF Left(t5, x) # nil THEN set_parent(t5, Left(t5, x), x) ELSE t5
        s7(t6) == IF Right(t6, x) # nil THEN set_parent(t6, Right(t6, x), x) ELSE t6
    IN  update_sum_r(s7(s6(s5(s3(s2(s1(t)))))), x)

\* the last part of erase: the successor x takes the place of n
erase_replace(t, n, x) ==
    LET s1(t0) == set_left(t0, x, Left(t0, n))
        s2(t1) == set_right(t1, x, Right(t1, n))
        s3(t2) == set_parent(t2, x, Parent(t2, n))
        s4(t3) == IF IsBlack(t3, n) THEN set_black(t3, x) ELSE set_red(t3, x)
        s5(t4) == IF Left(t4, Parent(t4, n)) = n THEN set_left(t4, Parent(t4, n), x)
                  ELSE IF Right(t4, Parent(t4, n)) = n THEN set_right(t4, Parent(t4, n), x)
                  ELSE Throw(t4, "erase: inconsistent tree detected")
        s6(t5) == IF Left(t5, x) # nil THEN set_parent(t5, Left(t5, x), x) ELSE t5
        s7(t6) == IF Right(t6, x) # nil THEN set_parent(t6, Right(t6, x), x) ELSE t6
    IN  update_sum_r(s7(s6(s5(s4(s3(s2(s1(t))))))), x)

\* erase as the textbook has it: with two children the entry of the
\* successor is copied into n and the node of the successor is freed
erase_copies_successor(t, n) ==
    LET x   == next(t, n)
        del == IF Left(t, n) # nil /\ Right(t, n) # nil THEN x ELSE n
        c0  == Left(t, del)
        cc  == IF c0 = nil THEN Right(t, del) ELSE c0
        p   == Parent(t, del)
        s1(t0) == set_parent(t0, cc, p)
        s2(t1) == IF Left(t1, p) = del THEN set_left(t1, p, cc) ELSE set_right(t1, p, cc)
        s3(t2) == erase_subtract_sums(t2, p, get_node_grvalue(t2, del))
        s4(t3) == IF IsBlack(t3, del)
                  THEN IF cc # nil THEN set_black(t3, cc) ELSE erase_fixup(t3, p, cc)
                  ELSE t3
        s5(t4) == IF del # n
                  THEN put_node(t4, n, [get_node(t4, n) EXCEPT
                                          !.key = get_node(t4, x).key,
                                          !.value = get_node(t4, x).value])
                  ELSE t4
        s6(t5) == free_node(t5, del)
        s7(t6) == IF t6.err # NoErr THEN t6
                  ELSE IF t6.size1 = 0 THEN Throw(t6, "erase: size1 is zero")
                  ELSE [t6 EXCEPT !.size1 = @ - 1]
    IN  [t |-> s7(s6(s5(s4(s3(s2(s1(t))))))), n |-> x]

\* orbtree_base::erase(NodeHandle); result: tree and the returned handle
erase(t, n) ==
    LET x   == next(t, n)
        del == IF Left(t, n) # nil /\ Right(t, n) # nil THEN x ELSE n
        c0  == Left(t, del)
        cc  == IF c0 = nil THEN Right(t, del) ELSE c0
        p   == Parent(t, del)
        s1(t0) == set_parent(t0, cc, p)
        s2(t1) == IF Left(t1, p) = del THEN set_left(t1, p, cc) ELSE set_right(t1, p, cc)
        s3(t2) == erase_subtract_sums(t2, p, get_node_grvalue(t2, del))
        s4(t3) == IF IsBlack(t3, del)
                  THEN IF cc # nil THEN set_black(t3, cc) ELSE erase_fixup(t3, p, cc)
                  ELSE t3
        s5(t4) == IF del # n THEN erase_replace(t4, n, x) ELSE t4
        s6(t5) == free_node(t5, n)
        s7(t6) == IF t6.err # NoErr THEN t6
                  ELSE IF t6.size1 = 0 THEN Throw(t6, "erase: size1 is zero")
                  ELSE [t6 EXCEPT !.size1 = @ - 1]
    IN  [t |-> s7(s6(s5(s4(s3(s2(s1(t))))))), n |-> x]

(* ----------------------- clear and shrink_to_fit ----------------------- *)
\* the outcomes of indexing the node vector with Invalid, which is undefined
\* behaviour: the process is killed, or the write lands outside the tree
UBOutcomes == {"crash", "stray"}
UBCrash == "crash: nodes[Invalid]"

\* NodeAllocatorCompact::move_nv
move_nv(t, x, y) == set_node_sum(t, x, get_node_sum(t, y))

\* NodeAllocatorCompact::move_node: the node in slot y goes to slot x
move_node(t, x, y) ==
    LET s1(t0) == put_node(t0, x, get_node(t0, y))
        s2(t1) == move_nv(t1, x, y)
        s3(t2) == IF y = root \/ y = nil THEN Throw(t2, "move_node: root or nil is moved") ELSE t2
        s4(t3) == IF t3.err # NoErr THEN t3
                  ELSE IF Parent(t3, x) # Invalid /\ Parent(t3, x) # nil
                  THEN IF Left(t3, Parent(t3, x)) = y THEN set_left(t3, Parent(t3, x), x)
                       ELSE IF Right(t3, Parent(t3, x)) = y THEN set_right(t3, Parent(t3, x), x)
                       ELSE Throw(t3, "move_node: inconsistent tree detected")
                  ELSE Throw(t3, "move_node: node with no parent")
        s5(t4) == IF t4.err # NoErr THEN t4
                  ELSE IF Left(t4, x) # Invalid /\ Left(t4, x) # nil
                  THEN IF Parent(t4, Left(t4, x)) # y
                       THEN Throw(t4, "move_node: inconsistent tree detected")
                       ELSE set_parent(t4, Left(t4, x), x)
                  ELSE t4
        s6(t5) == IF t5.err # NoErr THEN t5
                  ELSE IF Right(t5, x) # Invalid /\ Right(t5, x) # nil
                  THEN IF Parent(t5, Right(t5, x)) # y
                       THEN Throw(t5, "move_node: inconsistent tree detected")
                       ELSE set_parent(t5, Right(t5, x), x)
                  ELSE t5
    IN  s6(s5(s4(s3(s2(s1(t))))))

\* vector::shrink_to_fit of both vectors: the capacity is not part of the
\* state, elements are never dropped
shrink_memory(t, new_capacity) == t

\* nodes.pop_back() and nvarray.resize(size * nv_per_node), size being the
\* index of the last slot
pop_back(t, size) ==
    IF t.err # NoErr THEN t
    ELSE [t EXCEPT !.nodes = [n \in DOMAIN t.nodes \ {size} |-> t.nodes[n]],
                   !.nvarray = [j \in 0..(size * nv_per_node - 1) |->
                                  IF j \in DOMAIN t.nvarray THEN t.nvarray[j] ELSE 0]]

\* the branch of shrink_to_fit for a last slot that is on the list of
\* deleted nodes: the slot is taken out of the list
shrink_unlink_last(t, size) ==
    LET left  == Left(t, size)
        right == Right(t, size)
        s1(t0) == IF left # Invalid THEN set_right(t0, left, right) ELSE t0
        s2(t1) == IF right # Invalid THEN set_left(t1, right, left) ELSE t1
        s3(t2) == IF t2.head = size
                  THEN IF left = Invalid /\ t2.n_del > 1
                       THEN Throw([t2 EXCEPT !.head = left],
                                  "shrink_to_fit: inconsistent deleted nodes")
                       ELSE [t2 EXCEPT !.head = left]
                  ELSE t2
    IN  s3(s2(s1(t)))

\* the branch for a last slot that holds a node: the node moves to the slot
\* at the head of the list; the new head is written without a test for
\* Invalid, which no vector holds
shrink_move_last(t, size, ub) ==
    LET n == t.head
        s1(t0) == [t0 EXCEPT !.head = Left(t0, n)]
        s2(t1) == IF t1.head \in DOMAIN t1.nodes THEN set_right(t1, t1.head, Invalid)
                  ELSE IF ub = "crash" THEN Throw(t1, UBCrash)
                  ELSE t1
    IN  IF n = size THEN Throw(t, "shrink_to_fit: inconsistent deleted nodes")
        ELSE move_node(s2(s1(t)), n, size)

\* one turn of the loop of shrink_to_fit: the last slot is dropped
shrink_step(t, ub) ==
    IF Cardinality(DOMAIN t.nodes) = 0 THEN Throw(t, "shrink_to_fit: ran out of nodes")
    ELSE LET size == Cardinality(DOMAIN t.nodes) - 1
             s1(t0) == IF is_deleted(get_node(t0, size))
                       THEN shrink_unlink_last(t0, size)
                       ELSE shrink_move_last(t0, size, ub)
             s2(t1) == pop_back(t1, size)
             s3(t2) == IF t2.err # NoErr THEN t2
                       ELSE IF t2.n_del = 0
                       THEN Throw(t2, "shrink_to_fit: inconsistent deleted nodes")
                       ELSE [t2 EXCEPT !.n_del = @ - 1]
         IN  s3(s2(s1(t)))

\* a loop that stops after its first turn
shrink_loop_once(t, ub) ==
    IF t.err # NoErr \/ t.head = Invalid THEN t ELSE shrink_step(t, ub)

\* the loop of NodeAllocatorCompact::shrink_to_fit
RECURSIVE shrink_loop(_, _)
shrink_loop(t, ub) ==
    IF t.err # NoErr \/ t.head = Invalid THEN t
    ELSE shrink_loop(shrink_step(t, ub), ub)

\* NodeAllocatorCompact::shrink_to_fit
shrink_to_fit(t, ub) == shrink_memory(shrink_loop(t, ub), 0)

\* free_tree_nodes_r of the pointer allocator: the nodes of the subtree of n
RECURSIVE free_tree_nodes_r(_, _)
free_tree_nodes_r(t, n) ==
    LET l == Left(t, n)
        r == Right(t, n)
    IN  (IF l # Invalid /\ l # nil THEN free_tree_nodes_r(t, l) ELSE {})
        \cup (IF r # Invalid /\ r # nil THEN free_tree_nodes_r(t, r) ELSE {})
        \cup {n}

\* clear_tree of either allocator
clear_tree(t) ==
    IF Compact
    THEN LET keep == [t EXCEPT
                        !.nodes = [n \in {root, nil} |-> NewNode(DefaultKV)],
                        !.nvarray = [j \in 0..1 |-> t.nvarray[j]],
                        !.head = Invalid,
                        !.n_del = 0]
         IN  shrink_memory(keep, 4)
    ELSE LET l == Left(t, root)
             r == Right(t, root)
             gone == (IF l # Invalid /\ l # nil THEN free_tree_nodes_r(t, l) ELSE {})
                     \cup (IF r # Invalid /\ r # nil THEN free_tree_nodes_r(t, r) ELSE {})
             t1 == [t EXCEPT !.nodes = [a \in DOMAIN t.nodes \ gone |-> t.nodes[a]]]
         IN  set_right(set_left(t1, root, Invalid), root, Invalid)

\* clear that frees the nodes and leaves the sentinels as the allocator
\* left them
clear_without_sentinels(t) == clear_tree(t)

\* orbtree_base::clear
clear(t) == create_sentinels(clear_tree(t))

(* ------------------------------- queries ------------------------------- *)
\* the ascent of get_sum_fv_node
RECURSIVE get_sum_fv_node_loop(_, _, _, _)
get_sum_fv_node_loop(t, x, p, res) ==
    IF p = root THEN res
    ELSE LET l  == Left(t, p)
             r1 == IF x = Right(t, p)
                   THEN NVAdd(IF l # nil THEN NVAdd(res, get_node_sum(t, l)) ELSE res,
                              get_node_grvalue(t, p))
                   ELSE res
         IN  get_sum_fv_node_loop(t, p, Parent(t, p), r1)

\* get_sum_fv_node that starts the ascent without the left subtree of x
get_sum_fv_node_no_left(t, x) ==
    IF x = Invalid \/ x = nil \/ x = root THEN NVZero
    ELSE get_sum_fv_node_loop(t, x, Parent(t, x), NVZero)

get_sum_fv_node(t, x) ==
    IF x = Invalid \/ x = nil \/ x = root THEN NVZero
    ELSE LET l  == Left(t, x)
             r0 == IF l # nil THEN NVAdd(NVZero, get_node_sum(t, l)) ELSE NVZero
         IN  get_sum_fv_node_loop(t, x, Parent(t, x), r0)

get_norm_fv(t) ==
    IF root # Invalid /\ Right(t, root) # Invalid /\ Right(t, root) # nil
    THEN get_node_sum(t, Right(t, root))
    ELSE NVZero

\* orbtree::get_sum_node(it): the result of get_norm_fv for the end iterator
\* is overwritten by the call of get_sum_fv_node that follows it
get_sum_node(t, it) ==
    LET res == IF it = nil THEN get_norm_fv(t) ELSE NVZero
    IN  get_sum_fv_node(t, it)

\* orbtree::get_sum(k)
get_sum(t, k) == get_sum_node(t, lower_bound(t, k))

(* ------------------------- the two vectors ----------------------------- *)
\* vector_realloc.h and vector_stacked.h hold the elements of the node vector
\* of the compact allocator; vector_test.cpp drives either of them (v22) next
\* to a std::vector (v12).  Elements are int, indexes are size_t of SizeBits
\* bits, and a slot that malloc returned and nothing wrote holds Raw.
Elems == 1..MaxElem
SizeMax == 2^SizeBits
sizeofT == 4
p_max_capacity == (SizeMax - 1) \div sizeofT
Raw == 0 - 1
malloc(n) == [i \in 1..n |-> Raw]

\* an access outside the memory the vector holds is undefined behaviour: the
\* build stops there (err), or goes on with the write lost and the read
\* giving an indeterminate value (wild)
VecCrash == "crash: outside the vector's memory"
Wild(v, ub) ==
    IF v.err # NoErr THEN v
    ELSE IF ub = "crash" THEN [v EXCEPT !.err = VecCrash]
    ELSE [v EXCEPT !.wild = TRUE]

\* realloc_vector::vector(), the default constructor
realloc_vector ==
    [impl |-> "realloc", start |-> <<>>, p_size |-> 0, p_capacity |-> 0,
     err |-> NoErr, wild |-> FALSE]

\* stacked_vector::vector(), the default constructor, with max_grow given
stacked_vector ==
    [impl |-> "stacked", stack |-> <<>>, p_size |-> 0, p_capacity |-> 0,
     p_stack_size |-> 0, err |-> NoErr, wild |-> FALSE]

Done(v) == [v |-> v, ok |-> TRUE]
Failed(v) == [v |-> v, ok |-> FALSE]

(* realloc_vector *)
\* realloc keeps the elements that fit
rv_change_size(v, new_size) ==
    Done([v EXCEPT !.start = [i \in 1..new_size |->
                                 IF i <= Len(v.start) THEN v.start[i] ELSE Raw],
                   !.p_capacity = new_size])

rv_grow_vector(v, minimum_size) ==
    LET g1 == IF v.p_capacity = 0 THEN 1 ELSE v.p_capacity
        g2 == IF g1 > max_grow THEN max_grow ELSE g1
        g3 == IF g2 > p_max_capacity THEN p_max_capacity ELSE g2
        grow_capacity == IF p_max_capacity - g3 < v.p_capacity
                         THEN p_max_capacity - v.p_capacity ELSE g3
        new_size == IF v.p_capacity + grow_capacity < minimum_size
                    THEN minimum_size ELSE v.p_capacity + grow_capacity
    IN  IF minimum_size > p_max_capacity THEN Failed(v)
        ELSE IF grow_capacity = 0 THEN Failed(v)
        ELSE rv_change_size(v, new_size)

rv_reserve_nothrow(v, n) ==
    IF n > p_max_capacity THEN Failed(v)
    ELSE IF n <= v.p_capacity THEN Done(v)
    ELSE rv_change_size(v, n)

\* start[i] = x, with i counted from 0
rv_store(v, i, x, ub) ==
    IF v.err # NoErr THEN v
    ELSE IF i < Len(v.start) THEN [v EXCEPT !.start[i + 1] = x]
    ELSE Wild(v, ub)

rv_load(v, i) == IF i < Len(v.start) THEN v.start[i + 1] ELSE Raw

rv_push_back_nothrow(v, x, ub) ==
    LET g == IF v.p_size = v.p_capacity THEN rv_grow_vector(v, 0) ELSE Done(v)
        put(w) == IF w.err # NoErr THEN w ELSE [w EXCEPT !.p_size = @ + 1]
    IN  IF ~g.ok THEN g ELSE Done(put(rv_store(g.v, g.v.p_size, x, ub)))

\* memmove(start + new_pos, start + pos, remaining), which allows overlap
rv_memmove(v, new_pos, pos, remaining, ub) ==
    LET moved == [v EXCEPT !.start = [i \in 1..Len(v.start) |->
                     IF i - 1 >= new_pos /\ i - 1 < new_pos + remaining
                     THEN rv_load(v, pos + (i - 1 - new_pos)) ELSE v.start[i]]]
    IN  IF remaining > 0 /\ (new_pos + remaining > Len(v.start)
                             \/ pos + remaining > Len(v.start))
        THEN Wild(moved, ub) ELSE moved

rv_insert_helper(v, pos, new_pos, ub) ==
    LET diff == new_pos - pos
        r == IF new_pos > pos
             THEN IF v.p_size > p_max_capacity - diff THEN Failed(v)
                  ELSE rv_reserve_nothrow(v, v.p_size + diff)
             ELSE Done(v)
    IN  IF ~r.ok THEN r
        ELSE Done(rv_memmove(r.v, new_pos, pos, (r.v.p_size - pos) % SizeMax, ub))

RECURSIVE rv_copy_in(_, _, _, _)
rv_copy_in(v, p3, range, ub) ==
    IF range = <<>> THEN v
    ELSE rv_copy_in(rv_store(v, p3, Head(range), ub), p3 + 1, Tail(range), ub)

RECURSIVE rv_push_all(_, _, _)
rv_push_all(v, range, ub) ==
    IF range = <<>> \/ v.err # NoErr THEN v
    ELSE rv_push_all(rv_push_back_nothrow(v, Head(range), ub).v, Tail(range), ub)

\* insert_nothrow(pos, res, first, last) for forward iterators; int is
\* nothrow copy constructible
rv_insert_nothrow(v, p2, range, ub) ==
    LET dist == Len(range)
        r == rv_reserve_nothrow(v, v.p_size + dist)
        h == rv_insert_helper(v, p2, p2 + dist, ub)
        grown(w) == IF w.err # NoErr THEN w ELSE [w EXCEPT !.p_size = @ + dist]
    IN  IF range = <<>> THEN Done(v)
        ELSE IF p2 = v.p_size
             THEN IF ~r.ok THEN r ELSE Done(rv_push_all(r.v, range, ub))
        ELSE IF ~h.ok THEN h
        ELSE Done(grown(rv_copy_in(h.v, p2, range, ub)))

(* stacked_vector *)
get_indices(i) == [first |-> i \div max_grow, second |-> i % max_grow]

\* stack[x.first][x.second] lies in a chunk the vector holds
InChunk(v, i) ==
    LET x == get_indices(i)
    IN  /\ x.first < Len(v.stack)
        /\ x.second < Len(v.stack[x.first + 1])

\* get_ref(i), read
sv_load(v, i) ==
    LET x == get_indices(i)
    IN  IF InChunk(v, i) THEN v.stack[x.first + 1][x.second + 1] ELSE Raw

\* new(get_addr(i)) T(x) and get_ref(i) = x
sv_store(v, i, x, ub) ==
    LET s == get_indices(i)
    IN  IF v.err # NoErr THEN v
        ELSE IF InChunk(v, i)
             THEN [v EXCEPT !.stack[s.first + 1][s.second + 1] = x]
        ELSE Wild(v, ub)

\* the first overload: int is nothrow move constructible
copy_or_move(v, new_size) ==
    [i \in 1..new_size |->
        IF i <= v.p_size /\ i <= Len(v.stack[1]) THEN v.stack[1][i] ELSE Raw]

sv_change_size(v, new_size, ub) ==
    LET moved == IF Len(v.stack) = 0
                 THEN [v EXCEPT !.stack = <<malloc(new_size)>>]
                 ELSE LET w == IF v.p_size > Len(v.stack[1])
                               THEN Wild(v, ub) ELSE v
                      IN  [w EXCEPT !.stack[1] = copy_or_move(v, new_size)]
    IN  IF new_size > max_grow THEN Failed(v)
        ELSE IF new_size = v.p_stack_size THEN Done(v)
        ELSE IF moved.err # NoErr THEN Done(moved)
        ELSE Done([moved EXCEPT !.p_capacity = new_size,
                                !.p_stack_size = new_size,
                                !.p_size = IF new_size < @ THEN new_size ELSE @])

\* p_stack_size is positive wherever grow_one is called
grow_one(v) ==
    IF v.p_stack_size = 0 THEN Failed(v)
    ELSE IF Len(v.stack) >= (SizeMax - 1) \div v.p_stack_size THEN Failed(v)
    ELSE Done([v EXCEPT !.stack = Append(@, malloc(v.p_stack_size)),
                        !.p_capacity = @ + v.p_stack_size])

RECURSIVE grow_until(_, _)
grow_until(v, minimum_size) ==
    IF minimum_size > v.p_capacity
    THEN LET g == grow_one(v)
         IN  IF ~g.ok THEN g ELSE grow_until(g.v, minimum_size)
    ELSE Done(v)

sv_grow_vector(v, minimum_size, ub) ==
    LET doubled == IF 2 * v.p_stack_size = 0 THEN 1 ELSE 2 * v.p_stack_size
        wanted == IF minimum_size = 0 THEN doubled ELSE minimum_size
        new_size == IF wanted > max_grow THEN max_grow ELSE wanted
        cs == sv_change_size(v, new_size, ub)
    IN  IF minimum_size = 0 /\ v.p_stack_size = max_grow THEN grow_one(v)
        ELSE IF ~cs.ok \/ cs.v.err # NoErr THEN cs
        ELSE grow_until(cs.v, minimum_size)

sv_reserve_nothrow(v, n, ub) ==
    IF n > p_max_capacity THEN Failed(v)
    ELSE IF n <= v.p_capacity THEN Done(v)
    ELSE sv_grow_vector(v, n, ub)

\* the destructor of int does nothing
sv_pop_back(v) == IF v.p_size # 0 THEN [v EXCEPT !.p_size = @ - 1] ELSE v

RECURSIVE shrink_chunks(_, _, _)
shrink_chunks(v, new_capacity, ub) ==
    IF v.err # NoErr \/ v.p_capacity <= new_capacity THEN v
    ELSE IF Len(v.stack) = 0
         THEN shrink_chunks([Wild(v, ub) EXCEPT !.p_capacity = @ - max_grow],
                            new_capacity, ub)
    ELSE shrink_chunks([v EXCEPT !.stack = SubSeq(@, 1, Len(@) - 1),
                                 !.p_capacity = @ - max_grow],
                       new_capacity, ub)

sv_shrink_to_fit(v, new_capacity0, ub) ==
    LET new_capacity == IF new_capacity0 < v.p_size THEN v.p_size
                        ELSE new_capacity0
        rounded == IF new_capacity % max_grow # 0
                   THEN new_capacity + max_grow ELSE new_capacity
        new_stack_size == IF new_capacity > 0 THEN 1 ELSE 0
        \* stack.resize: the pointers added are null, a chunk without a slot
        cut == [v EXCEPT !.stack = [i \in 1..new_stack_size |->
                                       IF i <= Len(@) THEN @[i] ELSE <<>>]]
    IN  IF new_capacity > v.p_capacity THEN v
        ELSE IF new_capacity > max_grow THEN shrink_chunks(v, rounded, ub)
        ELSE IF new_capacity # 0 THEN sv_change_size(cut, new_capacity, ub).v
        ELSE cut

sv_push_back_nothrow(v, x, ub) ==
    LET g == IF v.p_size = v.p_capacity THEN sv_grow_vector(v, 0, ub)
             ELSE Done(v)
        put(w) == IF w.err # NoErr THEN w ELSE [w EXCEPT !.p_size = @ + 1]
    IN  IF ~g.ok \/ g.v.err # NoErr THEN g
        ELSE Done(put(sv_store(g.v, g.v.p_size, x, ub)))

\* for(; p_size < count; p_size++) new(get_addr(p_size)) T()
RECURSIVE sv_fill(_, _, _)
sv_fill(v, count, ub) ==
    IF v.err # NoErr \/ v.p_size >= count THEN v
    ELSE LET w == sv_store(v, v.p_size, 0, ub)
         IN  IF w.err # NoErr THEN w
             ELSE sv_fill([w EXCEPT !.p_size = @ + 1], count, ub)

sv_resize_nothrow(v, count, ub) ==
    LET g == IF count > v.p_capacity THEN sv_grow_vector(v, count, ub)
             ELSE Done(v)
    IN  IF count = v.p_size THEN Done(v)
        ELSE IF count < v.p_size THEN Done([v EXCEPT !.p_size = count])
        ELSE IF ~g.ok \/ g.v.err # NoErr THEN g
        ELSE Done(sv_fill(g.v, count, ub))

\* the first loop of insert_helper: p_size - diff + i is computed in size_t
RECURSIVE move_tail(_, _, _, _)
move_tail(v, diff, i, ub) ==
    IF v.err # NoErr \/ i >= diff THEN v
    ELSE LET from == (v.p_size - diff + i) % SizeMax
             w == IF InChunk(v, from) THEN v ELSE Wild(v, ub)
         IN  move_tail(sv_store(w, v.p_size + i, sv_load(v, from), ub),
                       diff, i + 1, ub)

\* the second loop of insert_helper
RECURSIVE move_up(_, _, _, _, _)
move_up(v, diff, pos, i, ub) ==
    IF v.err # NoErr \/ i <= pos THEN v
    ELSE LET w == IF InChunk(v, i - 1) THEN v ELSE Wild(v, ub)
         IN  move_up(sv_store(w, (i - 1 + diff) % SizeMax, sv_load(v, i - 1), ub),
                     diff, pos, i - 1, ub)

sv_insert_helper(v, pos, new_pos, ub) ==
    LET diff == new_pos - pos
        r == sv_reserve_nothrow(v, v.p_size + diff, ub)
        grown(w) == IF w.err # NoErr THEN w ELSE [w EXCEPT !.p_size = @ + diff]
        s1(w) == move_tail(w, diff, 0, ub)
        s2(w) == move_up(w, diff, pos, (w.p_size - diff) % SizeMax, ub)
    IN  IF v.p_size > p_max_capacity - diff THEN Failed(v)
        ELSE IF ~r.ok \/ r.v.err # NoErr THEN r
        ELSE Done(grown(s2(s1(r.v))))

RECURSIVE sv_copy_in(_, _, _, _)
sv_copy_in(v, i, range, ub) ==
    IF range = <<>> THEN v
    ELSE sv_copy_in(sv_store(v, i, Head(range), ub), i + 1, Tail(range), ub)

RECURSIVE sv_push_all(_, _, _)
sv_push_all(v, range, ub) ==
    IF range = <<>> \/ v.err # NoErr THEN v
    ELSE sv_push_all(sv_push_back_nothrow(v, Head(range), ub).v, Tail(range), ub)

\* insert_nothrow(pos, res, first, last) for forward iterators
sv_insert_nothrow(v, pos, range, ub) ==
    LET dist == Len(range)
        r == sv_reserve_nothrow(v, v.p_size + dist, ub)
        h == sv_insert_helper(v, pos, pos + dist, ub)
    IN  IF range = <<>> THEN Done(v)
        ELSE IF pos = v.p_size
             THEN IF ~r.ok \/ r.v.err # NoErr THEN r
                  ELSE Done(sv_push_all(r.v, range, ub))
        ELSE IF ~h.ok THEN h
        ELSE Done(sv_copy_in(h.v, pos, range, ub))

(* either vector, as the test program sees it *)
push_back(v, x, ub) ==
    IF v.impl = "stacked" THEN sv_push_back_nothrow(v, x, ub)
    ELSE rv_push_back_nothrow(v, x, ub)

vector_insert(v, pos, range, ub) ==
    IF v.impl = "stacked" THEN sv_insert_nothrow(v, pos, range, ub)
    ELSE rv_insert_nothrow(v, pos, range, ub)

\* operator[] for i < size()
vector_at(v, i) == IF v.impl = "stacked" THEN sv_load(v, i) ELSE rv_load(v, i)

\* the elements that cmp_vec reads
Elements(v) == [i \in 1..v.p_size |-> vector_at(v, i - 1)]

\* std::vector::insert(begin() + pos, first, last)
std_insert(s, pos, range) ==
    SubSeq(s, 1, pos) \o range \o SubSeq(s, pos + 1, Len(s))

(* ------------------------- the state machine --------------------------- *)
Cur ==
    [nodes |-> nodes, nvarray |-> nvarray, size1 |-> size1, n_del |-> n_del,
     head |-> deleted_nodes_head, err |-> err, oom |-> "none"]

Store(t) ==
    /\ nodes' = t.nodes
    /\ nvarray' = t.nvarray
    /\ size1' = t.size1
    /\ n_del' = t.n_del
    /\ deleted_nodes_head' = t.head
    /\ err' = t.err

\* the last operation: its name, the key given to insert, the handle given to
\* erase or update_value, whether the node given to erase had two children,
\* and the number of deleted nodes that shrink_to_fit found
NoOp == [op |-> "construct", key |-> 0, h |-> 0, both |-> FALSE, freed |-> 0]
NoRet == [n |-> 0, inserted |-> FALSE]

Init ==
    /\ alloc \in {"compact", "ptr"}
    /\ multi \in BOOLEAN
    /\ nodes = Construct.nodes
    /\ nvarray = Construct.nvarray
    /\ size1 = Construct.size1
    /\ n_del = Construct.n_del
    /\ deleted_nodes_head = Construct.head
    /\ err = Construct.err
    /\ lastOp = NoOp
    /\ ret = NoRet
    /\ nops = 0
    /\ nupd = 0
    /\ v12 = <<>>
    /\ v22 = stacked_vector

\* insert(value_type) of the containers
Insert(k, v) ==
    /\ err = NoErr
    /\ nops < MaxOps
    /\ nops' = nops + 1
    /\ size1 < MaxSize
    /\ LET result(r) == Store(r.t) /\ ret' = [n |-> r.n, inserted |-> r.inserted]
       IN  result(insert(Cur, [key |-> k, value |-> v]))
    /\ lastOp' = [op |-> "insert", key |-> k, h |-> 0, both |-> FALSE, freed |-> 0]
    /\ UNCHANGED <<alloc, multi, nupd, v12, v22>>

\* erase(const_iterator) of the containers, on an iterator to an entry
Erase(h) ==
    /\ err = NoErr
    /\ nops < MaxOps
    /\ nops' = nops + 1
    /\ h \in LiveHandles(Cur)
    /\ LET result(r) == Store(r.t) /\ ret' = [n |-> r.n, inserted |-> FALSE]
       IN  result(erase(Cur, h))
    /\ lastOp' = [op |-> "erase", key |-> 0, h |-> h,
                  both |-> Left(Cur, h) # nil /\ Right(Cur, h) # nil, freed |-> 0]
    /\ UNCHANGED <<alloc, multi, nupd, v12, v22>>

\* update_value(iterator, value) of a map
UpdateValue(h, v) ==
    /\ err = NoErr
    /\ nops < MaxOps
    /\ nops' = nops + 1
    /\ nupd < MaxUpdates
    /\ nupd' = nupd + 1
    /\ h \in LiveHandles(Cur)
    /\ Store(update_value(Cur, h, v))
    /\ ret' = NoRet
    /\ lastOp' = [op |-> "update_value", key |-> 0, h |-> h, both |-> FALSE, freed |-> 0]
    /\ UNCHANGED <<alloc, multi, v12, v22>>

Next ==
    \/ \E k \in Keys : Insert(k, 0)   \* a set: the entry is the key alone
    \/ \E h \in DOMAIN nodes : Erase(h)

Spec == Init /\ [][Next]_vars

\* a map or multimap: the entries are inserted with the value 0, which
\* update_value changes
NextUpdate ==
    \/ \E k \in Keys : nops < MaxMapOps /\ Insert(k, 0)
    \/ \E h \in DOMAIN nodes : nops < MaxMapOps /\ Erase(h)
    \/ \E h \in DOMAIN nodes, v \in Vals : nops < MaxMapOps /\ UpdateValue(h, v)

SpecUpdate == Init /\ [][NextUpdate]_vars

\* insert(value_type) during which the host allocator refuses the request f
InsertOOM(k, v, f) ==
    /\ err = NoErr
    /\ nops < MaxOomOps
    /\ nops' = nops + 1
    /\ size1 < MaxSize
    /\ LET result(r) == Store(r.t) /\ ret' = [n |-> r.n, inserted |-> r.inserted]
       IN  result(insert([Cur EXCEPT !.oom = f], [key |-> k, value |-> v]))
    /\ lastOp' = [op |-> "insert_oom", key |-> k, h |-> 0, both |-> FALSE, freed |-> 0]
    /\ UNCHANGED <<alloc, multi, nupd, v12, v22>>

NextOOM ==
    \/ \E k \in Keys : nops < MaxOomOps /\ Insert(k, 0)
    \/ \E h \in DOMAIN nodes : nops < MaxOomOps /\ Erase(h)
    \/ \E k \in Keys, f \in {"node", "sum"} : InsertOOM(k, 0, f)

SpecOOM == Init /\ [][NextOOM]_vars

\* a container on the compact allocator with the small index type
InitSmall ==
    /\ alloc = "compact_small"
    /\ multi \in BOOLEAN
    /\ nodes = Construct.nodes
    /\ nvarray = Construct.nvarray
    /\ size1 = Construct.size1
    /\ n_del = Construct.n_del
    /\ deleted_nodes_head = Construct.head
    /\ err = Construct.err
    /\ lastOp = NoOp
    /\ ret = NoRet
    /\ nops = 0
    /\ nupd = 0
    /\ v12 = <<>>
    /\ v22 = stacked_vector

SpecSmall == InitSmall /\ [][Next]_vars

\* a map or multimap with values of about half of the largest NVType: the
\* weights of two such entries do not fit into NVType
BigVal == NVTypeMax \div 2

NextBig ==
    \/ \E k \in Keys, v \in {0, BigVal} : nops < MaxBigOps /\ Insert(k, v)
    \/ \E h \in DOMAIN nodes : nops < MaxBigOps /\ Erase(h)
    \/ \E h \in DOMAIN nodes : nops < MaxBigOps /\ UpdateValue(h, BigVal)

SpecBig == Init /\ [][NextBig]_vars

\* shrink_to_fit() of a container on the compact allocator
ShrinkToFit(ub) ==
    /\ err = NoErr
    /\ Compact
    /\ nops < MaxCompactOps
    /\ nops' = nops + 1
    /\ Store(shrink_to_fit(Cur, ub))
    /\ ret' = NoRet
    /\ lastOp' = [op |-> "shrink_to_fit", key |-> 0, h |-> 0, both |-> FALSE,
                  freed |-> n_del]
    /\ UNCHANGED <<alloc, multi, nupd, v12, v22>>

\* clear() of the containers
Clear ==
    /\ err = NoErr
    /\ nops < MaxCompactOps
    /\ nops' = nops + 1
    /\ Store(clear(Cur))
    /\ ret' = NoRet
    /\ lastOp' = [op |-> "clear", key |-> 0, h |-> 0, both |-> FALSE, freed |-> 0]
    /\ UNCHANGED <<alloc, multi, nupd, v12, v22>>

\* a container on the compact allocator, with compaction and clear
InitCompact == Init /\ Compact

NextCompact ==
    \/ \E k \in Keys : nops < MaxCompactOps /\ Insert(k, 0)
    \/ \E h \in DOMAIN nodes : nops < MaxCompactOps /\ Erase(h)
    \/ \E ub \in UBOutcomes : ShrinkToFit(ub)
    \/ Clear

SpecCompact == InitCompact /\ [][NextCompact]_vars

\* insert(const_iterator hint, value_type) of the containers; the hint is an
\* iterator to an entry or end(), the key may be the default key 0 that the
\* sentinels hold; un and ul are the contents of the uninitialised locals
InsertHint(h, k, v, un, ul) ==
    /\ err = NoErr
    /\ nops < MaxHintOps
    /\ nops' = nops + 1
    /\ size1 < MaxSize
    /\ h \in LiveHandles(Cur) \cup {nil}
    /\ LET result(r) == Store(r.t) /\ ret' = [n |-> r.n, inserted |-> r.inserted]
       IN  result(insert_with_hint(Cur, h, [key |-> k, value |-> v], un, ul))
    /\ lastOp' = [op |-> "insert_hint", key |-> k, h |-> h, both |-> FALSE, freed |-> 0]
    /\ UNCHANGED <<alloc, multi, nupd, v12, v22>>

\* what the locals n and insert_left of insert(NodeHandle, const ValueType&)
\* may hold when insert_search_hint returns without setting them: any
\* handle, any bool; one value stands for all where they are set
UninitRead(h, k) ==
    h \in LiveHandles(Cur) /\ insert_search_hint(Cur, h, k, Invalid, FALSE).uninit
UninitHandles(h, k) == IF UninitRead(h, k) THEN DOMAIN nodes \cup {Invalid} ELSE {Invalid}
UninitBools(h, k) == IF UninitRead(h, k) THEN BOOLEAN ELSE {FALSE}

NextHint ==
    \/ \E k \in Keys : nops < MaxHintOps /\ Insert(k, 0)
    \/ \E h \in DOMAIN nodes : nops < MaxHintOps /\ Erase(h)
    \/ \E h \in DOMAIN nodes, k \in {0} \cup Keys :
          \E un \in UninitHandles(h, k), ul \in UninitBools(h, k) :
             InsertHint(h, k, 0, un, ul)

SpecHint == Init /\ [][NextHint]_vars

\* set_value(key, value) of a map
SetValue(k, v) ==
    /\ err = NoErr
    /\ nops < MaxSetOps
    /\ nops' = nops + 1
    /\ size1 < MaxSize
    /\ LET result(r) == Store(r.t) /\ ret' = [n |-> r.n, inserted |-> r.inserted]
       IN  result(set_value(Cur, k, v))
    /\ lastOp' = [op |-> "set_value", key |-> k, h |-> 0, both |-> FALSE, freed |-> 0,
                  value |-> v]
    /\ UNCHANGED <<alloc, multi, nupd, v12, v22>>

\* a map: orbtreemap has unique keys
InitMap == Init /\ ~multi

NextMap ==
    \/ \E k \in Keys, v \in Vals : SetValue(k, v)
    \/ \E h \in DOMAIN nodes : nops < MaxSetOps /\ Erase(h)

SpecMap == InitMap /\ [][NextMap]_vars

\* the errors that are C++ exceptions, which the caller can catch to go on
\* with the container
Exceptions == {e \in {err} : e \notin {NoErr, UBCrash, UBUninit, UBStray}}

\* clear() of the containers, also as the first call after a caught
\* exception; lastOp keeps the size and the number of deleted nodes that
\* clear found and whether an exception had been thrown
ClearAny ==
    /\ nops < MaxClearOps
    /\ nops' = nops + 1
    /\ err \in {NoErr} \cup Exceptions
    /\ Store(clear([Cur EXCEPT !.err = NoErr]))
    /\ ret' = NoRet
    /\ lastOp' = [op |-> "clear", key |-> 0, h |-> 0, both |-> FALSE, freed |-> n_del,
                  size |-> size1, caught |-> err # NoErr]
    /\ UNCHANGED <<alloc, multi, nupd, v12, v22>>

NextClear ==
    \/ \E k \in Keys : nops < MaxClearOps /\ Insert(k, 0)
    \/ \E h \in DOMAIN nodes : nops < MaxClearOps /\ Erase(h)
    \/ ClearAny

SpecClear == Init /\ [][NextClear]_vars

\* rotate_left(x) or rotate_right(x) on a node x of the tree whose right or
\* left child is not nil, the precondition that the callers in insert_helper
\* and erase keep; lastOp keeps x and the child y that takes its place
Rotate(x, left) ==
    /\ err = NoErr
    /\ nops < MaxRotateOps
    /\ nops' = nops + 1
    /\ x \in LiveHandles(Cur)
    /\ (IF left THEN Right(Cur, x) ELSE Left(Cur, x)) # nil
    /\ Store(IF left THEN rotate_left(Cur, x) ELSE rotate_right(Cur, x))
    /\ ret' = NoRet
    /\ lastOp' = [op |-> IF left THEN "rotate_left" ELSE "rotate_right", key |-> 0,
                  h |-> x, both |-> FALSE, freed |-> 0,
                  y |-> IF left THEN Right(Cur, x) ELSE Left(Cur, x)]
    /\ UNCHANGED <<alloc, multi, nupd, v12, v22>>

\* the rotations are steps of insert and erase: a run applies one to a tree
\* that insert and erase built, and ends there
NextRotate ==
    \/ \E k \in Keys :
          /\ lastOp.op \notin {"rotate_left", "rotate_right"}
          /\ nops < MaxRotateOps - 1
          /\ Insert(k, 0)
    \/ \E h \in DOMAIN nodes :
          /\ lastOp.op \notin {"rotate_left", "rotate_right"}
          /\ nops < MaxRotateOps - 1
          /\ Erase(h)
    \/ \E x \in DOMAIN nodes, left \in BOOLEAN :
          /\ lastOp.op \notin {"rotate_left", "rotate_right"}
          /\ Rotate(x, left)

SpecRotate == Init /\ [][NextRotate]_vars

\* vector_test.cpp: v12 is the std::vector, v22 the vector under test; the
\* tree is left as constructed
InitVector ==
    /\ alloc = "compact"
    /\ multi = FALSE
    /\ nodes = Construct.nodes
    /\ nvarray = Construct.nvarray
    /\ size1 = Construct.size1
    /\ n_del = Construct.n_del
    /\ deleted_nodes_head = Construct.head
    /\ err = Construct.err
    /\ lastOp = NoOp
    /\ ret = NoRet
    /\ nops = 0
    /\ nupd = 0
    /\ v12 = <<>>
    /\ \/ v22 = realloc_vector
       \/ v22 = stacked_vector

InitStacked == InitVector /\ v22.impl = "stacked"

\* push_back(x) on both vectors
VecPushBack(x, ub) ==
    /\ v22.err = NoErr
    /\ nops' = nops + 1
    /\ v12' = Append(v12, x)
    /\ v22' = push_back(v22, x, ub).v
    /\ lastOp' = [op |-> "push_back", key |-> x, h |-> 0, both |-> FALSE, freed |-> 0]
    /\ UNCHANGED <<alloc, multi, nodes, nvarray, size1, n_del,
                   deleted_nodes_head, err, ret, nupd>>

\* insert(begin() + insert_pos, first, last) on both vectors, with
\* insert_pos drawn from 0..v12.size()-1
VecInsert(pos, range, ub) ==
    /\ v22.err = NoErr
    /\ pos < Len(v12)
    /\ nops' = nops + 1
    /\ v12' = std_insert(v12, pos, range)
    /\ v22' = vector_insert(v22, pos, range, ub).v
    /\ lastOp' = [op |-> "insert", key |-> Len(range), h |-> pos, both |-> FALSE,
                  freed |-> 0, size |-> Len(v12)]
    /\ UNCHANGED <<alloc, multi, nodes, nvarray, size1, n_del,
                   deleted_nodes_head, err, ret, nupd>>

Ranges == UNION {[1..m -> Elems] : m \in 1..MaxInsert}

NextVector ==
    \/ \E x \in Elems, ub \in UBOutcomes : nops < MaxVecOps /\ VecPushBack(x, ub)
    \/ \E pos \in 0..(MaxVecOps * MaxInsert), range \in Ranges, ub \in UBOutcomes :
          nops < MaxVecOps /\ VecInsert(pos, range, ub)

SpecVector == InitVector /\ [][NextVector]_vars

\* pop_back() on both vectors
VecPopBack ==
    /\ v22.err = NoErr
    /\ Len(v12) > 0
    /\ nops' = nops + 1
    /\ v12' = SubSeq(v12, 1, Len(v12) - 1)
    /\ v22' = sv_pop_back(v22)
    /\ lastOp' = [op |-> "pop_back", key |-> 0, h |-> 0, both |-> FALSE, freed |-> 0]
    /\ UNCHANGED <<alloc, multi, nodes, nvarray, size1, n_del,
                   deleted_nodes_head, err, ret, nupd>>

\* resize(count) on both vectors
VecResize(count, ub) ==
    /\ v22.err = NoErr
    /\ nops' = nops + 1
    /\ v12' = [i \in 1..count |-> IF i <= Len(v12) THEN v12[i] ELSE 0]
    /\ v22' = sv_resize_nothrow(v22, count, ub).v
    /\ lastOp' = [op |-> "resize", key |-> count, h |-> 0, both |-> FALSE, freed |-> 0]
    /\ UNCHANGED <<alloc, multi, nodes, nvarray, size1, n_del,
                   deleted_nodes_head, err, ret, nupd>>

\* reserve(n) of the stacked vector
VecReserve(n, ub) ==
    /\ v22.err = NoErr
    /\ nops' = nops + 1
    /\ v22' = sv_reserve_nothrow(v22, n, ub).v
    /\ lastOp' = [op |-> "reserve", key |-> n, h |-> 0, both |-> FALSE, freed |-> 0]
    /\ UNCHANGED <<alloc, multi, nodes, nvarray, size1, n_del,
                   deleted_nodes_head, err, ret, nupd, v12>>

\* shrink_to_fit(new_capacity) of the stacked vector
VecShrinkToFit(new_capacity, ub) ==
    /\ v22.err = NoErr
    /\ nops' = nops + 1
    /\ v22' = sv_shrink_to_fit(v22, new_capacity, ub)
    /\ lastOp' = [op |-> "shrink_to_fit", key |-> new_capacity, h |-> 0,
                  both |-> FALSE, freed |-> 0, size |-> v22.p_size,
                  chunk |-> v22.p_stack_size, chunks |-> Len(v22.stack)]
    /\ UNCHANGED <<alloc, multi, nodes, nvarray, size1, n_del,
                   deleted_nodes_head, err, ret, nupd, v12>>

NextStacked ==
    \/ \E x \in Elems, ub \in UBOutcomes : nops < MaxStackedOps /\ VecPushBack(x, ub)
    \/ nops < MaxStackedOps /\ VecPopBack
    \/ \E count \in 0..MaxReserve, ub \in UBOutcomes :
          nops < MaxStackedOps /\ VecResize(count, ub)
    \/ \E n \in 0..MaxReserve, ub \in UBOutcomes :
          nops < MaxStackedOps /\ VecReserve(n, ub)
    \/ \E n \in 0..MaxReserve, ub \in UBOutcomes :
          nops < MaxStackedOps /\ VecShrinkToFit(n, ub)

SpecStacked == InitStacked /\ [][NextStacked]_vars

(* --------------------- what the claims talk about ---------------------- *)
CurP ==
    [nodes |-> nodes', nvarray |-> nvarray', size1 |-> size1', n_del |-> n_del',
     head |-> deleted_nodes_head', err |-> err', oom |-> "none"]

\* the nodes of the subtree of x, left to right, by the child links alone;
\* fuel bounds the depth so that a cyclic structure still yields a value
RECURSIVE InOrderR(_, _, _)
InOrderR(t, x, fuel) ==
    IF x = nil \/ fuel = 0 THEN <<>>
    ELSE InOrderR(t, Left(t, x), fuel - 1) \o <<x>> \o InOrderR(t, Right(t, x), fuel - 1)

Size(t) == Cardinality(DOMAIN t.nodes)
InOrder(t) == InOrderR(t, Right(t, root), Size(t))

\* the handles met by walking from first() with next() until nil, at most
\* fuel steps
RECURSIVE WalkFrom(_, _, _)
WalkFrom(t, n, fuel) ==
    IF n = nil \/ fuel = 0 THEN <<>>
    ELSE <<n>> \o WalkFrom(t, next(t, n), fuel - 1)
Walk(t) == WalkFrom(t, first(t), Size(t))

EntryOf(t, n) == KeyValue(get_node(t, n))
Entries(t, hs) == [i \in 1..Len(hs) |-> EntryOf(t, hs[i])]
KeysOf(t, hs) == [i \in 1..Len(hs) |-> get_node_key(t, hs[i])]

\* the sum of the weights of the entries es, as a sum of integers
VecAdd(x, y) == [i \in 1..nv_per_node |-> x[i] + y[i]]
RECURSIVE SumW(_)
SumW(es) == IF es = <<>> THEN NVZero ELSE VecAdd(NVFunc(Head(es)), SumW(Tail(es)))

Range(f) == {f[i] : i \in DOMAIN f}
IndexOf(sq, x) == CHOOSE i \in 1..Len(sq) : sq[i] = x

(* ------------------------------ check_tree ----------------------------- *)
\* check_tree_r: ok is FALSE where the source throws; pbc is
\* previous_black_count, -1 standing for (size_t)-1
RECURSIVE check_tree_r(_, _, _, _, _)
check_tree_r(t, sums, x, black_count, pbc) ==
    LET l == Left(t, x)
        r == Right(t, x)
        kx == get_node_key(t, x)
        lOK == l = nil \/
                 /\ Parent(t, l) = x
                 /\ ~(IsRed(t, x) /\ IsRed(t, l))
                 /\ (c(get_node_key(t, l), kx) \/ (multi /\ ~c(kx, get_node_key(t, l))))
        rOK == r = nil \/
                 /\ Parent(t, r) = x
                 /\ ~(IsRed(t, x) /\ IsRed(t, r))
                 /\ ~c(get_node_key(t, r), kx)
                 /\ (multi \/ c(kx, get_node_key(t, r)))
        s0 == get_node_grvalue(t, x)
        s1 == IF l # nil THEN NVAdd(s0, get_node_sum(t, l)) ELSE s0
        s2 == IF r # nil THEN NVAdd(s1, get_node_sum(t, r)) ELSE s1
        sOK == ~sums \/ get_node_sum(t, x) = s2
        bc == IF IsBlack(t, x) THEN black_count + 1 ELSE black_count
        atLeaf == r = nil \/ l = nil
        bOK == ~atLeaf \/ pbc = -1 \/ pbc = bc
        pbc1 == IF atLeaf /\ pbc = -1 THEN bc ELSE pbc
    IN  IF ~(lOK /\ rOK /\ sOK /\ bOK) THEN [ok |-> FALSE, pbc |-> pbc1]
        ELSE LET a == IF l # nil THEN check_tree_r(t, sums, l, bc, pbc1)
                      ELSE [ok |-> TRUE, pbc |-> pbc1]
             IN  IF ~a.ok THEN a
                 ELSE IF r # nil THEN check_tree_r(t, sums, r, bc, a.pbc)
                 ELSE a

\* check_tree(epsilon): sums is epsilon >= 0; TRUE when nothing is thrown
check_tree(t, sums) ==
    IF Left(t, root) # nil \/ Parent(t, root) # nil THEN FALSE
    ELSE LET x == Right(t, root) IN
         IF x = nil THEN TRUE
         ELSE IF x = Invalid THEN FALSE
         ELSE IF Parent(t, x) # root THEN FALSE
         ELSE check_tree_r(t, sums, x, 0, -1).ok

(* ------------------------------- C1 ------------------------------------ *)
SumOrZero(t, n) == IF n = nil THEN NVZero ELSE get_node_sum(t, n)
AugmentationAt(t, n) ==
    get_node_sum(t, n) =
        NVAdd(NVAdd(get_node_grvalue(t, n), SumOrZero(t, Left(t, n))),
              SumOrZero(t, Right(t, n)))

\* C1: after operations that raised no error every node of the tree stores
\* the weight of its entry plus the stored sums of its two children (nil
\* counting as zero), and check_tree(0) throws nothing
C1_Augmentation ==
    err = NoErr =>
        /\ \A n \in Range(InOrder(Cur)) : AugmentationAt(Cur, n)
        /\ check_tree(Cur, TRUE)

\* an update_value that gave a new value to a node below the real root, in
\* a tree that an erase has changed
C1_Witness ==
    /\ err = NoErr
    /\ lastOp.op = "update_value"
    /\ size1 >= 3
    /\ Cardinality(DOMAIN nodes) + (IF Compact THEN 0 ELSE 1) >= 6
    /\ Parent(Cur, lastOp.h) # root
    /\ get_node(Cur, lastOp.h).value # 0

(* ------------------------------- C2 ------------------------------------ *)
\* C2: for every node h of the tree, get_sum_node(h) is the sum of the
\* weights of the entries before h in order; its rank component is the
\* zero-based position of h in the walk from first()
C2_RankConsistency ==
    LET io == InOrder(Cur)
        w  == Walk(Cur)
    IN  \A i \in 1..Len(io) :
           /\ get_sum_node(Cur, io[i]) = SumW(Entries(Cur, SubSeq(io, 1, i - 1)))
           /\ i <= Len(w) /\ w[i] = io[i]
           /\ get_sum_node(Cur, io[i])[1] = i - 1

C2_Witness ==
    /\ lastOp.op = "erase"
    /\ err = NoErr
    /\ size1 >= 4
    /\ \E h \in Range(InOrder(Cur)) :
          /\ Right(Cur, Parent(Cur, h)) = h
          /\ Parent(Cur, h) # root
          /\ Left(Cur, h) # nil
          /\ get_sum_node(Cur, h)[1] >= 3

(* ------------------------------- C3 ------------------------------------ *)
EntriesBelow(t, k) ==
    LET io == InOrder(t) IN
    SelectSeq(Entries(t, io), LAMBDA e : c(e.key, k))

\* C3: get_sum(k) is the sum of the weights of the stored entries with a key
\* below k, also when k is above every stored key, where it is the total sum
C3_SumBefore ==
    \A k \in 1..(MaxKey + 1) : get_sum(Cur, k) = SumW(EntriesBelow(Cur, k))

(* ------------------------------- C4 ------------------------------------ *)
\* the numbers of black nodes on the paths from x down to a nil link
RECURSIVE BlackCounts(_, _, _)
BlackCounts(t, x, fuel) ==
    IF x = nil \/ fuel = 0 THEN {0}
    ELSE LET b == IF IsBlack(t, x) THEN 1 ELSE 0 IN
         {b + m : m \in BlackCounts(t, Left(t, x), fuel - 1)
                        \cup BlackCounts(t, Right(t, x), fuel - 1)}

NoRedRed(t) ==
    \A n \in Range(InOrder(t)) :
        IsRed(t, n) =>
            /\ Left(t, n) = nil \/ IsBlack(t, Left(t, n))
            /\ Right(t, n) = nil \/ IsBlack(t, Right(t, n))

\* C4: no red node has a red child, and all paths from the real root to a
\* nil link hold the same number of black nodes
C4_RedBlack ==
    /\ NoRedRed(Cur)
    /\ Cardinality(BlackCounts(Cur, Right(Cur, root), Size(Cur))) = 1

C4_Witness ==
    /\ lastOp.op = "erase"
    /\ err = NoErr
    /\ size1 >= 4
    /\ \E n \in Range(InOrder(Cur)) : IsRed(Cur, n)
    /\ \E n \in Range(InOrder(Cur)) : IsBlack(Cur, n) /\ Parent(Cur, n) # root

(* ------------------------------- C5 ------------------------------------ *)
\* C5: the real root of a non-empty tree is black
C5_RootBlack ==
    (err = NoErr /\ Right(Cur, root) # nil) => IsBlack(Cur, Right(Cur, root))

(* ------------------------------- C6 ------------------------------------ *)
NonDecreasing(ks) == \A i \in 1..(Len(ks) - 1) : ~c(ks[i + 1], ks[i])
Increasing(ks)    == \A i \in 1..(Len(ks) - 1) : c(ks[i], ks[i + 1])
NoRepeat(sq) == \A i, j \in 1..Len(sq) : sq[i] = sq[j] => i = j

\* C6: the walk from first() with next() ends at nil, meets every live entry
\* exactly once, in non-decreasing order of the keys (increasing in a
\* unique container)
C6_IterationOrder ==
    LET w == Walk(Cur) IN
        /\ Len(w) < Size(Cur)
        /\ NoRepeat(w)
        /\ Range(w) = LiveHandles(Cur)
        /\ NonDecreasing(KeysOf(Cur, w))
        /\ ~multi => Increasing(KeysOf(Cur, w))

(* ------------------------------- C7 ------------------------------------ *)
\* C7: size() is the number of nodes met by the walk from first() to nil
C7_SizeIsWalkLength == size1 = Len(Walk(Cur))

(* ------------------------------- C8 ------------------------------------ *)
InsertAt(sq, j, x) == SubSeq(sq, 1, j) \o <<x>> \o SubSeq(sq, j + 1, Len(sq))
\* the last position of sq that holds a key not above k, 0 if there is none
LastNotAbove(t, sq, k) ==
    LET S == {i \in 1..Len(sq) : ~c(k, get_node_key(t, sq[i]))}
    IN  IF S = {} THEN 0 ELSE CHOOSE i \in S : \A j \in S : j <= i

\* C8: in a multi container insert without a hint succeeds, and the new
\* node comes right after the last entry with an equal key (after the last
\* entry with a smaller key when there is no equal one)
C8_MultiInsertAfterEqual ==
    [][(lastOp'.op = "insert" /\ multi) =>
          LET io == InOrder(Cur) IN
          /\ err' = NoErr
          /\ ret'.inserted
          /\ ret'.n \notin Range(io)
          /\ get_node_key(CurP, ret'.n) = lastOp'.key
          /\ InOrder(CurP) = InsertAt(io, LastNotAbove(Cur, io, lastOp'.key), ret'.n)]_vars

\* an insert between an entry with the same key and one with a larger key
C8_Witness ==
    /\ lastOp.op = "insert" /\ multi /\ ret.inserted /\ err = NoErr
    /\ LET pv == previous(Cur, ret.n)
           nx == next(Cur, ret.n)
       IN  /\ pv # nil /\ get_node_key(Cur, pv) = lastOp.key
           /\ nx # nil /\ c(lastOp.key, get_node_key(Cur, nx))

(* ------------------------------- C9 ------------------------------------ *)
\* C9: in a unique container insert with a stored key returns the node with
\* that key and false, and changes neither a node (entry, links, colour,
\* sum) nor size(), nor the node vector and the list of deleted nodes
C9_UniqueInsertExisting ==
    [][(/\ lastOp'.op = "insert"
        /\ ~multi
        /\ \E n \in Range(InOrder(Cur)) : get_node_key(Cur, n) = lastOp'.key) =>
          /\ ~ret'.inserted
          /\ ret'.n \in Range(InOrder(Cur))
          /\ get_node_key(Cur, ret'.n) = lastOp'.key
          /\ UNCHANGED <<nodes, nvarray, size1, n_del, deleted_nodes_head, err>>]_vars

C9_Witness ==
    /\ lastOp.op = "insert" /\ ~multi /\ ~ret.inserted
    /\ size1 >= 2
    /\ Compact /\ n_del >= 1
    /\ get_node_key(Cur, ret.n) = lastOp.key
    /\ Parent(Cur, ret.n) # root

(* ------------------------------- C10 ----------------------------------- *)
Remove(sq, x) == SelectSeq(sq, LAMBDA y : y # x)

\* C10: erase(h) returns the node that followed h, takes exactly the entry
\* of h out of the sequence of entries and makes size() one smaller
C10_EraseReturnsNext ==
    [][lastOp'.op = "erase" =>
          LET h  == lastOp'.h
              io == Remove(InOrder(Cur), h)
          IN  /\ err' = NoErr
              /\ ret'.n = next(Cur, h)
              /\ InOrder(CurP) = io
              /\ Entries(CurP, io) = Entries(Cur, io)
              /\ size1' = size1 - 1]_vars

(* ------------------------------- C11 ----------------------------------- *)
\* C11: insert and erase(h) leave every live node other than h allocated,
\* in the tree when it was in the tree, and holding the entry it held; this
\* covers the erase of a node with two children, where the successor is
\* rewired into the place of h, and the insert that takes a slot from the
\* list of deleted nodes
C11_HandleStability ==
    [][lastOp'.op \in {"insert", "erase"} =>
          \A g \in LiveHandles(Cur) \ {IF lastOp'.op = "erase" THEN lastOp'.h ELSE Invalid} :
              /\ g \in LiveHandles(CurP)
              /\ EntryOf(CurP, g) = EntryOf(Cur, g)
              /\ g \in Range(InOrder(Cur)) => g \in Range(InOrder(CurP))]_vars

\* an erase of a node with two children has put the successor, which was
\* not a child of the erased node, into its place
C11_Witness ==
    /\ lastOp.op = "erase" /\ err = NoErr
    /\ lastOp.both
    /\ Left(Cur, ret.n) # nil /\ Right(Cur, ret.n) # nil
    /\ lastOp.h \notin LiveHandles(Cur)
    /\ size1 >= 3

(* ------------------------------- C12 ----------------------------------- *)
\* C12: after entries were inserted and all of them erased again, in any
\* order, the tree is empty: the erase of the last entry leaves size() = 0,
\* a total sum of zeros, first() = nil and nil as the right child of the
\* header
C12_EraseAllLeavesEmpty ==
    [][(lastOp'.op = "erase" /\ Len(InOrder(Cur)) = 1) =>
          /\ err' = NoErr
          /\ size1' = 0
          /\ get_norm_fv(CurP) = NVZero
          /\ first(CurP) = nil
          /\ Right(CurP, root) = nil]_vars

(* ------------------------------- C13 ----------------------------------- *)
\* the nodes from n up to the real root
RECURSIVE PathToRoot(_, _, _)
PathToRoot(t, n, fuel) ==
    IF n = root \/ n = nil \/ fuel = 0 THEN {}
    ELSE {n} \cup PathToRoot(t, Parent(t, n), fuel - 1)

\* links and colour of every node
Shape(t) ==
    [n \in DOMAIN t.nodes |->
        [left |-> Left(t, n), right |-> Right(t, n), parent |-> Parent(t, n),
         red |-> IsRed(t, n)]]

\* C13: in a map update_value(h, v) leaves get_sum_node(h) as it was, changes
\* get_sum_node(next(h)), which stands for the total sum when next(h) is
\* nil, by exactly the weight of (key, v) minus the weight of the old entry,
\* leaves links and colours alone, and the nodes from h up to the real root
\* store the sum of their subtree
C13_UpdateValueSums ==
    [][lastOp'.op = "update_value" =>
          LET h  == lastOp'.h
              nx == next(Cur, h)
              w0 == NVFunc(EntryOf(Cur, h))
              w1 == NVFunc(EntryOf(CurP, h))
          IN  /\ err' = NoErr
              /\ get_sum_node(CurP, h) = get_sum_node(Cur, h)
              /\ \A i \in 1..nv_per_node :
                    get_sum_node(CurP, nx)[i] - get_sum_node(Cur, nx)[i] = w1[i] - w0[i]
              /\ Shape(CurP) = Shape(Cur)
              /\ \A n \in PathToRoot(CurP, h, Size(CurP)) : AugmentationAt(CurP, n)]_vars

(* ------------------------------- C14 ----------------------------------- *)
\* what shrink_to_fit has to keep: the entries in order, size(), the total
\* sum and the sum before every key
Observed(t) ==
    [entries |-> Entries(t, InOrder(t)),
     size    |-> t.size1,
     total   |-> get_norm_fv(t),
     before  |-> [k \in 1..(MaxKey + 1) |-> get_sum(t, k)]]

\* C14: on the compact allocator shrink_to_fit completes without error after
\* any inserts and erases, also with a single freed slot that is not the
\* last slot; the entries in order, size(), the total sum and the sum before
\* every key are what they were, and the red-black and sum invariants hold
C14_CompactionNeutral ==
    [][lastOp'.op = "shrink_to_fit" =>
          /\ err' = NoErr
          /\ Observed(CurP) = Observed(Cur)
          /\ NoRedRed(CurP)
          /\ Cardinality(BlackCounts(CurP, Right(CurP, root), Size(CurP))) = 1
          /\ check_tree(CurP, TRUE)]_vars

(* ------------------------------- C15 ----------------------------------- *)
\* C15: shrink_to_fit terminates, dropping one slot for every deleted node,
\* and when it returns the list of deleted nodes is empty, n_del is 0 and
\* the node vector holds size() + 2 slots
C15_ShrinkPostcondition ==
    [][(lastOp'.op = "shrink_to_fit" /\ err' = NoErr) =>
          /\ deleted_nodes_head' = Invalid
          /\ n_del' = 0
          /\ Size(CurP) = size1' + 2
          /\ Size(Cur) - Size(CurP) = lastOp'.freed
          /\ \A n \in DOMAIN nodes' : ~is_deleted(nodes'[n])]_vars

\* a shrink_to_fit that returned after it had dropped two deleted slots
C15_Witness ==
    /\ lastOp.op = "shrink_to_fit" /\ err = NoErr
    /\ lastOp.freed >= 2
    /\ size1 >= 1

(* ------------------------------- C16 ----------------------------------- *)
\* the slots met from slot n along the left links of the list of deleted
\* nodes, at most fuel of them
RECURSIVE FreeListFrom(_, _, _)
FreeListFrom(t, n, fuel) ==
    IF n \notin DOMAIN t.nodes \/ fuel = 0 THEN <<>>
    ELSE <<n>> \o FreeListFrom(t, Left(t, n), fuel - 1)
FreeList(t) == FreeListFrom(t, t.head, Size(t))

\* C16: on the compact allocator, after any inserts, erases, clears and
\* compactions every slot but the sentinels is either a node of the tree or
\* on the list of deleted nodes, never both; the slots marked deleted are the
\* slots met from deleted_nodes_head; the list is doubly linked, ends with
\* Invalid on both sides and has n_del slots
C16_FreeListPartition ==
    Compact =>
        LET fl   == FreeList(Cur)
            tree == Range(InOrder(Cur))
        IN  /\ NoRepeat(fl)
            /\ Len(fl) = n_del
            /\ \A n \in DOMAIN nodes \ {root, nil} : (n \in tree) # (n \in Range(fl))
            /\ Range(fl) = {n \in DOMAIN nodes : is_deleted(nodes[n])}
            /\ deleted_nodes_head = Invalid \/ deleted_nodes_head \in DOMAIN nodes
            /\ \A i \in 1..Len(fl) :
                  /\ Right(Cur, fl[i]) = (IF i = 1 THEN Invalid ELSE fl[i - 1])
                  /\ Left(Cur, fl[i]) = (IF i = Len(fl) THEN Invalid ELSE fl[i + 1])

(* ------------------------------- C17 ----------------------------------- *)
\* erase(const_iterator) of the containers on end() (nil) or on an iterator
\* to the header: erase has no test for either. The call is offered where
\* the parent link of nil leads to a node of the tree or to a sentinel, so
\* that every node erase then touches is allocated
EraseSentinel(h) ==
    /\ err = NoErr
    /\ h \in {root, nil}
    /\ Parent(Cur, nil) \in {root, nil} \cup Range(InOrder(Cur))
    /\ nops' = nops + 1
    /\ LET result(r) == Store(r.t) /\ ret' = [n |-> r.n, inserted |-> FALSE]
       IN  result(erase(Cur, h))
    /\ lastOp' = [op |-> "erase_sentinel", key |-> 0, h |-> h, both |-> FALSE, freed |-> 0]
    /\ UNCHANGED <<alloc, multi, nupd, v12, v22>>

\* inserts and erases, and one erase on a sentinel that ends the run
NextSentinel ==
    \/ \E k \in Keys :
          lastOp.op # "erase_sentinel" /\ nops < MaxSentinelOps /\ Insert(k, 0)
    \/ \E h \in DOMAIN nodes :
          lastOp.op # "erase_sentinel" /\ nops < MaxSentinelOps /\ Erase(h)
    \/ \E h \in DOMAIN nodes :
          lastOp.op # "erase_sentinel" /\ nops < MaxSentinelOps /\ EraseSentinel(h)

SpecSentinel == Init /\ [][NextSentinel]_vars

\* C17: erase(nil) and erase(header) report InvalidHandle and leave the
\* tree as it was
C17_EraseSentinelRejected ==
    [][lastOp'.op = "erase_sentinel" =>
          /\ err' = "InvalidHandle"
          /\ UNCHANGED <<nodes, nvarray, size1, n_del, deleted_nodes_head>>]_vars

(* ------------------------------- C18 ----------------------------------- *)
\* C18: when an allocation fails during insert (the node, the growth of the
\* node vector or of the sum vector) the error is reported, the tree is what
\* it was, no node is left outside the tree, and for the compact allocator
\* the sum vector is as long as the node vector holds slots
C18_InsertAllocationFailure ==
    [][(lastOp'.op = "insert_oom" /\ err' # NoErr) =>
          /\ err' = "OutOfMemory"
          /\ InOrder(CurP) = InOrder(Cur)
          /\ Entries(CurP, InOrder(CurP)) = Entries(Cur, InOrder(Cur))
          /\ Shape(CurP) = Shape(Cur)
          /\ size1' = size1
          /\ LiveHandles(CurP) = Range(InOrder(CurP))
          /\ Compact => Cardinality(DOMAIN nvarray') = Size(CurP) * nv_per_node]_vars

(* ------------------------------- C19 ----------------------------------- *)
\* the sum of the weights in the subtree of n, as a sum of integers
TrueSum(t, n) == SumW(Entries(t, InOrderR(t, n, Size(t))))

\* C19: with a bounded integer NVType no stored sum is a wrapped value:
\* after insert, erase and update_value every node of the tree stores the
\* integer sum of the weights in its subtree, or, when the operation raised
\* Arithmetic, the sum it stored before; and an operation after which the
\* weights in the tree add up to more than the largest NVType has raised
\* Arithmetic
C19_NoWrappedSum ==
    [][lastOp'.op \in {"insert", "erase", "update_value"} =>
          /\ \A n \in Range(InOrder(CurP)) :
                \/ get_node_sum(CurP, n) = TrueSum(CurP, n)
                \/ /\ err' = "Arithmetic"
                   /\ n \in Range(InOrder(Cur))
                   /\ get_node_sum(CurP, n) = get_node_sum(Cur, n)
          /\ (\E i \in 1..nv_per_node :
                 SumW(Entries(CurP, InOrder(CurP)))[i] > NVTypeMax) => err' = "Arithmetic"]_vars

\* an update_value below the real root has raised Arithmetic
C19_Witness ==
    /\ err = "Arithmetic"
    /\ lastOp.op = "update_value"
    /\ Parent(Cur, lastOp.h) # root
    /\ \E n \in Range(InOrder(Cur)) : get_node_sum(Cur, n) # TrueSum(Cur, n)

(* ------------------------------- C20 ----------------------------------- *)
\* the number of entries in the tree
Live(t) == Len(InOrder(t))
\* an insert that needs a node: any insert into a multi container, the
\* insert of a key that is not stored into a unique one
NeedsNode(t, k) ==
    multi \/ \A n \in Range(InOrder(t)) : get_node_key(t, n) # k
\* no slot has the index Invalid or an index with the red bit
IndexesBelowInvalid(t) == \A n \in DOMAIN t.nodes : n < 2^(IndexWidth - 1) - 1

C21_HintInsertAsInsert ==
    [][(lastOp'.op = "insert_hint" /\ ~multi /\ lastOp'.h # nil) =>
          LET r == insert(Cur, [key |-> lastOp'.key, value |-> 0]) IN
          /\ err' = r.t.err
          /\ ret'.inserted = r.inserted
          /\ size1' = r.t.size1
          /\ Entries(CurP, InOrder(CurP)) = Entries(r.t, InOrder(r.t))
          /\ (~r.inserted => /\ ret'.n = r.n
                             /\ UNCHANGED <<nodes, nvarray, size1, n_del,
                                            deleted_nodes_head>>)
          /\ check_tree(CurP, TRUE)]_vars

SortedAdd(es, e) ==
    LET S == {i \in 1..Len(es) : ~c(e.key, es[i].key)}
        j == IF S = {} THEN 0 ELSE CHOOSE i \in S : \A m \in S : m <= i
    IN  InsertAt(es, j, e)

\* C23: set_value(k, v) of a map returns true and adds the entry (k, v) when
\* k is not stored, returns false and replaces the value of k's entry when it
\* is; afterwards at(k) is v, size() has grown by one or not at all, and
\* every stored sum is the weight of the node's entry plus the sums of its
\* children
C23_SetValue ==
    [][lastOp'.op = "set_value" =>
          LET k == lastOp'.key
              v == lastOp'.value
              es == Entries(Cur, InOrder(Cur))
              stored == {i \in 1..Len(es) : es[i].key = k}
              esP == Entries(CurP, InOrder(CurP))
          IN  /\ err' = NoErr
              /\ ret'.inserted = (stored = {})
              /\ stored = {} => /\ esP = SortedAdd(es, [key |-> k, value |-> v])
                                /\ size1' = size1 + 1
              /\ stored # {} => /\ esP = [i \in 1..Len(es) |->
                                            IF i \in stored THEN [key |-> k, value |-> v]
                                            ELSE es[i]]
                                /\ size1' = size1
                                /\ InOrder(CurP) = InOrder(Cur)
              /\ at(CurP, k) = [ok |-> TRUE, value |-> v]
              /\ \A n \in Range(InOrder(CurP)) :
                    /\ AugmentationAt(CurP, n)
                    /\ get_node_sum(CurP, n) = TrueSum(CurP, n)
              /\ check_tree(CurP, TRUE)]_vars

\* set_value gave a new value to a stored key below the real root
C23_Witness ==
    /\ lastOp.op = "set_value" /\ ~ret.inserted /\ err = NoErr
    /\ size1 >= 3
    /\ Parent(Cur, ret.n) # root
    /\ get_node(Cur, ret.n).value = 1
    /\ lastOp.value = 1
    /\ Compact => n_del >= 1

(* ------------------------------- C25 ----------------------------------- *)
\* what two inserts give on the tree t: for each pair of keys the values
\* returned, the entries, size, total sum and sums before each key, and
\* whether check_tree passes
AfterInserts(t) ==
    [k1 \in Keys, k2 \in Keys |->
        LET a == insert(t, [key |-> k1, value |-> 0])
            b == insert(a.t, [key |-> k2, value |-> 0])
        IN  [first |-> a.inserted, second |-> b.inserted, err |-> b.t.err,
             seen |-> Observed(b.t), valid |-> check_tree(b.t, TRUE)]]

\* C25: after clear() the container is empty (size() 0, total sum zero,
\* first() nil), the two sentinels exist and the header's links are nil, the
\* compact allocator's node vector has length 2 and no deleted node, and
\* inserts act as they do on a newly constructed container (on the compact
\* allocator with the same handles and the same stored state)
C25_ClearIsFresh ==
    [][lastOp'.op = "clear" =>
          /\ err' = NoErr
          /\ size1' = 0
          /\ get_norm_fv(CurP) = NVZero
          /\ first(CurP) = nil
          /\ {root, nil} \subseteq DOMAIN nodes'
          /\ Left(CurP, root) = nil /\ Right(CurP, root) = nil /\ Parent(CurP, root) = nil
          /\ Compact => /\ Size(CurP) = 2
                        /\ n_del' = 0
                        /\ deleted_nodes_head' = Invalid
                        /\ \A k \in Keys : insert(CurP, [key |-> k, value |-> 0])
                                             = insert(Construct, [key |-> k, value |-> 0])
          /\ AfterInserts(CurP) = AfterInserts(Construct)]_vars

\* clear on the compact allocator found two entries and a deleted node
C25_Witness ==
    /\ lastOp.op = "clear"
    /\ Compact
    /\ lastOp.size >= 2
    /\ lastOp.freed >= 1

(* ------------------------------- C26 ----------------------------------- *)
\* C26: rotate_left(x) and rotate_right(x), with the child y of x that takes
\* its place not nil, keep the entries in their order, change no stored sum
\* but those of x and y, and leave in y the sum that x stored before
C26_RotationSums ==
    [][lastOp'.op \in {"rotate_left", "rotate_right"} =>
          LET x == lastOp'.h
              y == lastOp'.y
          IN  /\ err' = NoErr
              /\ InOrder(CurP) = InOrder(Cur)
              /\ Entries(CurP, InOrder(CurP)) = Entries(Cur, InOrder(Cur))
              /\ Parent(CurP, x) = y
              /\ \A n \in DOMAIN nodes \ {x, y} :
                    get_node_sum(CurP, n) = get_node_sum(Cur, n)
              /\ get_node_sum(CurP, y) = get_node_sum(Cur, x)
              /\ AugmentationAt(CurP, x) /\ AugmentationAt(CurP, y)]_vars

\* a left rotation below the real root that moved a subtree from y to x
C26_Witness ==
    /\ lastOp.op = "rotate_left" /\ err = NoErr
    /\ Left(Cur, lastOp.y) = lastOp.h
    /\ Left(Cur, lastOp.h) # nil
    /\ Right(Cur, lastOp.h) # nil
    /\ get_node_sum(Cur, lastOp.h) # get_node_sum(Cur, lastOp.y)

(* ------------------------------- C27 ----------------------------------- *)
\* C27 as stated: in every state nil is black and its parent, left and right
\* links are nil
C27_NilUntouched ==
    /\ IsBlack(Cur, nil)
    /\ Parent(Cur, nil) = nil
    /\ Left(Cur, nil) = nil
    /\ Right(Cur, nil) = nil

NilBlackLeaf(t) == IsBlack(t, nil) /\ Left(t, nil) = nil /\ Right(t, nil) = nil

\* C27 as the code has it: in every state nil is black and its left and
\* right links are nil; its parent link is nil after construction and after
\* clear, insert leaves it as it is, and erase may set it to the header or
\* to a node
C27_NilBlackLeaf ==
    [][/\ NilBlackLeaf(Cur)
       /\ NilBlackLeaf(CurP)
       /\ lastOp.op = "construct" => Parent(Cur, nil) = nil
       /\ lastOp'.op = "clear" => Parent(CurP, nil) = nil
       /\ lastOp'.op = "insert" => Parent(CurP, nil) = Parent(Cur, nil)
       /\ lastOp'.op = "erase" =>
             Parent(CurP, nil) \in {Parent(Cur, nil), root} \cup DOMAIN nodes]_vars

\* an insert into a container where an erase has left the parent link of nil
\* at a node
C27_Witness ==
    /\ lastOp.op = "insert" /\ ret.inserted /\ err = NoErr
    /\ Parent(Cur, nil) \in LiveHandles(Cur)
    /\ size1 >= 3

NewNodeInVector(t) ==
    t.head # Invalid =>
        /\ t.head \in DOMAIN t.nodes
        /\ Left(t, t.head) # Invalid => Left(t, t.head) \in DOMAIN t.nodes

\* the slots that free_node(n) indexes are slots of the node vector
FreeNodeInVector(t, n) ==
    /\ n \in DOMAIN t.nodes
    /\ t.head # Invalid => t.head \in DOMAIN t.nodes

\* the slots that shrink_to_fit indexes are slots of the node vector, in
\* every turn of its loop; where the last slot holds a node the new head of
\* the list is indexed as it is read from the old head
RECURSIVE ShrinkInVector(_)
ShrinkInVector(t) ==
    IF t.err # NoErr \/ t.head = Invalid THEN TRUE
    ELSE LET size == Size(t) - 1 IN
         /\ size \in DOMAIN t.nodes
         /\ t.head \in DOMAIN t.nodes
         /\ IF is_deleted(get_node(t, size))
            THEN /\ Left(t, size) # Invalid => Left(t, size) \in DOMAIN t.nodes
                 /\ Right(t, size) # Invalid => Right(t, size) \in DOMAIN t.nodes
            ELSE t.head # size => Left(t, t.head) \in DOMAIN t.nodes
         /\ ShrinkInVector(shrink_step(t, "stray"))

\* C29: every index that new_node, free_node and shrink_to_fit of the
\* compact allocator use on the node vector is below the length of the
\* vector; Invalid is never used as an index
C29_IndexesInVector ==
    [][/\ lastOp'.op = "insert" => NewNodeInVector(Cur)
       /\ lastOp'.op = "erase" => FreeNodeInVector(Cur, lastOp'.h)
       /\ lastOp'.op = "shrink_to_fit" => ShrinkInVector(Cur)]_vars

(* ------------------------------- C24 ----------------------------------- *)
\* C24: with either vector, after push_back calls and range inserts of one
\* or more elements at a position below the size, the vector has the size
\* and the elements of the std::vector that took the same calls, and no
\* access left the vector's memory
C24_VectorMatchesReference ==
    lastOp.op \in {"push_back", "insert"} =>
        /\ v22.err = NoErr
        /\ ~v22.wild
        /\ v22.p_size = Len(v12)
        /\ Elements(v22) = v12

(* ------------------------------- C30 ----------------------------------- *)
\* the element slots of the chunks that the stacked vector holds
RECURSIVE ChunkSlots(_)
ChunkSlots(stack) ==
    IF stack = <<>> THEN 0 ELSE Len(Head(stack)) + ChunkSlots(Tail(stack))

\* C30: the stacked vector's size never exceeds its capacity, its capacity
\* is the number of element slots in the chunks it holds, and no operation
\* reaches outside those chunks
C30_CapacityIsChunks ==
    v22.impl = "stacked" =>
        /\ v22.err = NoErr
        /\ ~v22.wild
        /\ v22.p_size <= v22.p_capacity
        /\ v22.p_capacity = ChunkSlots(v22.stack)

====
